---- MODULE Spec2Model ----
(***************************************************************************)
(* zkAgent Rails MVP.                                                      *)
(*                                                                         *)
(* Two programs of the repository are modelled.  They share no state, so a *)
(* behaviour is an execution of one of them (variable sys):                *)
(*   "paymaster"  evm/src/CompliancePaymaster.sol with evm/src/MockEAS.sol *)
(*   "agent"      agent/src/agent.ts (zkAgent.processPayment) with         *)
(*                policyValidator.ts, riskAnalyzer.ts, attestationManager  *)
(*   "batch"      the agent driven by the Promise.all batch of             *)
(*                agent/examples/advanced-usage.ts                         *)
(***************************************************************************)
EXTENDS Integers, Sequences, FiniteSets, TLC

(***************************************************************************)
(* Bounds of the model.                                                    *)
(***************************************************************************)
\* maxTransactionValue of the agent's configuration (1e18 by default), scaled
MaxTxValue == 1
\* analyze() calls a behaviour may add to the rolling history
MaxAnalyses == 1
\* number of processPayment calls of one Promise.all batch
BatchSize == 2
\* admitted validations the observer log keeps
MaxLog == 2
\* recent failures a record of risk factors counts
MaxFailures == 2
\* largest amount of a request whose risk factors are computed
MaxProbeAmount == 10
\* emit_receipt calls that succeed in a behaviour
MaxReceipts == 3
\* the largest u256, scaled: merchant_total_volume panics on overflow above it
MaxVolume == 4
\* quickCheck calls of a behaviour
MaxQuickChecks == 1
\* sqrt is applied to every value from -2 to MaxSqrtInput
MaxSqrtInput == 200

(***************************************************************************)
(* Time, in seconds.  Date.now() / block.timestamp.                        *)
(***************************************************************************)
\* issuance time of the behaviours
T0 == 10000
\* `now + 3600n`: lifetime of an attestation
ATTESTATION_TTL == 3600
\* parseInt(Date.now().toString().slice(0, 6)): the first six digits of a
\* 13-digit millisecond clock change every 10^7 ms
EPOCH_SECONDS == 10000

PaymasterTimes == {T0 + ATTESTATION_TTL - 1, T0 + ATTESTATION_TTL, T0 + ATTESTATION_TTL + 1}
AgentTimes == {2 * EPOCH_SECONDS}
\* the last second of the window of an attestation created at T0, and the next
ExpiryTimes == {T0 + ATTESTATION_TTL, T0 + ATTESTATION_TTL + 1}

CurrentEpoch(t) == t \div EPOCH_SECONDS

(***************************************************************************)
(* keccak256, taken as collision free: the digest names its preimage.      *)
(***************************************************************************)
Keccak256(preimage) == <<"keccak256", preimage>>

(***************************************************************************)
(* CompliancePaymaster and MockEAS: values.                                *)
(***************************************************************************)
ENTRY_POINT == "entryPoint"
Callers == {ENTRY_POINT, "bundler"}
ZeroAddress == "0x0"
Attesters == {"att1", "att2"}
\* constructor argument _attester
InitialAttester == "att1"
SCHEMA_UID == "schemaA"
Schemas == {SCHEMA_UID, "schemaB"}
AttUids == {"u1", "u2"}
\* uids MockEAS.set is called with; "u2" is never attested
SetUids == {"u1"}
UserOpHashes == {"h1", "h2"}
PmEpochs == {1, 2}
PreFunds == {1}
\* 20 bytes of paymaster address + three 32-byte words
PMD_MIN_LENGTH == 116
\* per-epoch sponsorship cap of the design (DESIGN.md, Policy.capPerEpoch), scaled
PaymasterCap == 1

\* mapping default of MockEAS.a: the zero struct
NoAttestation ==
  [uid |-> "0", schema |-> "0", attester |-> ZeroAddress, time |-> 0,
   expirationTime |-> 0, revocationTime |-> 0, dataHash |-> "0"]

\* policy hashes a payload carries: three of the four (userOpHash, epoch) digests
PolicyHashes == {Keccak256(<<"h1", 1>>), Keccak256(<<"h2", 1>>), Keccak256(<<"h1", 2>>)}

\* paymasterAndData as the EntryPoint hands it over: its byte length and the
\* three words that follow the 20-byte prefix; one payload is a byte short and
\* one has a trailing byte
Payloads ==
  [len : {PMD_MIN_LENGTH}, attUid : SetUids, policyHash : PolicyHashes, epoch : PmEpochs]
    \cup
  [len : {PMD_MIN_LENGTH}, attUid : AttUids \ SetUids, policyHash : {Keccak256(<<"h1", 1>>)}, epoch : {1}]
    \cup
  [len : {PMD_MIN_LENGTH - 1, PMD_MIN_LENGTH + 1}, attUid : SetUids,
   policyHash : {Keccak256(<<"h1", 1>>)}, epoch : {1}]

NoCall == [op |-> "none"]
\* no pure function has been applied
NoProbe == [op |-> "none"]

(***************************************************************************)
(* DollarRouter and policy_guard: values.                                  *)
(***************************************************************************)
\* the immutable USDC of the router
USDC == "usdc"
Tokens == {USDC, "dai", "xyz"}
\* ledger entries: the caller, the router contract, the merchant, the swap pool
Holders == {"payer", "this", "merchant", "pool"}
RouterCallers == {"owner", "payer"}
\* units of each token the payer starts with
PayerFunds == 2
\* units of USDC the pool of the swap router starts with
PoolReserve == 2
\* amounts of a call: amountIn, minOut, the output of a swap
Amounts == 0..PayerFunds

GuardUsers == {"alice", "bob"}
Commitments == {"c1", "c2"}
PolicyKeys == GuardUsers \X Commitments
GuardCallers == {"owner", "owner2", "attester1", "attester2"}
\* ContractAddress zero
GuardZero == "0"

(***************************************************************************)
(* The agent: values.                                                      *)
(***************************************************************************)
\* address strings: well formed ones match /^0x[a-fA-F0-9]{40}$/
WellFormedAddresses == {"0xaa", "0xAA", "0xbb", "0xusdc", "0xUSDC", "0xusdt", "0xdai", "0xcc", "0xpm"}
\* String.prototype.toLowerCase on the address strings of the model
toLowerCase(s) ==
  CASE s = "0xAA" -> "0xaa"
    [] s = "0xUSDC" -> "0xusdc"
    [] OTHER -> s

\* knownTokens of RiskAnalyzer.isUnknownToken: USDC, USDT, DAI
knownTokens == {"0xusdc", "0xusdt", "0xdai"}
\* transactionHistory.slice(-1000)
HISTORY_LIMIT == 1000
\* isUnusualAmount: `transactionHistory.length < 10`
MIN_SAMPLES == 10
\* checkVelocity: `recentToMerchant.length > 5`
VELOCITY_LIMIT == 5
\* cap per epoch: `maxTransactionValue * 10n`
CAP_FACTOR == 10

\* AgentConfig, as far as processPayment reads it
Configs ==
  { [paymasterAddress |-> "0xpm", maxTransactionValue |-> MaxTxValue, schemaUID |-> "schemaA",
     allowedTokens |-> {}, allowedMerchants |-> {}],
    [paymasterAddress |-> "0xpm", maxTransactionValue |-> MaxTxValue, schemaUID |-> "schemaA",
     allowedTokens |-> {"0xusdc"}, allowedMerchants |-> {"0xaa"}],
    [paymasterAddress |-> "", maxTransactionValue |-> MaxTxValue, schemaUID |-> "schemaA",
     allowedTokens |-> {}, allowedMerchants |-> {}] }

Req(m, t, a) == [merchant |-> m, tokenIn |-> t, amountIn |-> a]
\* the payment requests callers submit
Requests ==
  { Req("0xaa", "0xusdc", MaxTxValue),      \* allow-listed, within the limits
    Req("0xaa", "0xusdc", MaxTxValue + 1),  \* above maxTransactionValue
    Req("0xaa", "0xusdc", 0),               \* zero amount
    Req("0xbb", "0xcc", MaxTxValue),        \* other merchant, unknown token
    Req("zz", "0xusdc", MaxTxValue) }       \* malformed merchant address
\* the requests of a Promise.all batch (processPayment(request), no options)
BatchRequests == {Req("0xaa", "0xusdc", MaxTxValue), Req("0xbb", "0xcc", MaxTxValue)}
\* options.epoch: 0 (absent) takes the current epoch
EpochOptions == {0, 2, 4}
\* the history after six quickCheck calls for the request to "0xbb"
WarmHistory == [i \in 1..(VELOCITY_LIMIT + 1) |-> Req("0xbb", "0xcc", MaxTxValue)]

Procs == 1..BatchSize

\* the systems that run the agent, and those whose caller awaits each
\* processPayment call before the next
AgentSystems == {"agent", "batch", "history", "expiry", "quick"}
SequentialSystems == {"agent", "history", "expiry", "quick"}

NoRequest == Req("", "", 0)
NoPlan == [userOpHash |-> <<>>, policyHash |-> <<>>, target |-> "", gasEstimate |-> 0, epoch |-> 0]
NoValidation ==
  [valid |-> FALSE, violations |-> {}, warnings |-> {}, capRemaining |-> 0, epochValid |-> FALSE]
NoDecision ==
  [approved |-> FALSE, reason |-> "", riskScore |-> 0, confidence |-> 0, flags |-> {},
   suggestedAction |-> ""]
NoAgentAttestation ==
  [uid |-> <<>>, schema |-> "", attester |-> "", recipient |-> "", time |-> 0,
   expirationTime |-> 0, data |-> <<>>]
\* no quickCheck call has been made
IdleQuick ==
  [pc |-> "idle", request |-> NoRequest, epoch |-> 0, policyValidation |-> NoValidation,
   result |-> FALSE, calls |-> 0]
\* a processPayment call that has not started
IdleCall ==
  [pc |-> "idle", request |-> NoRequest, epoch |-> 0, skipRiskAnalysis |-> FALSE,
   transactionPlan |-> NoPlan, policyValidation |-> NoValidation, decision |-> NoDecision,
   attestation |-> NoAgentAttestation, attestationValid |-> FALSE, outcome |-> "",
   spendBefore |-> <<>>, paymasterData |-> [status |-> "none"]]


VARIABLES
  sys,                \* which program the behaviour executes
  now,                \* clock: block.timestamp / Date.now() in seconds
  attesterWhitelist,  \* CompliancePaymaster.attesterWhitelist: the addresses mapped to true
  easDb,              \* MockEAS.a: uid -> Attestation
  pmResult,           \* outcome of the paymaster call made by the latest transaction
  admitted,           \* observer: log of the validations the paymaster accepted
  config,             \* zkAgent.config
  epochSpending,      \* PolicyValidator.epochSpending: Map epoch -> spend
  transactionHistory, \* RiskAnalyzer.transactionHistory
  merchantDatabase,   \* RiskAnalyzer.merchantDatabase: Map lower-cased address -> MerchantInfo
  call,               \* the processPayment calls: position and locals of each
  approvedSum,        \* observer: per epoch, the amounts of the calls that returned approved
  analysed,           \* observer: the requests analyze has pushed since the initial state
  probe,              \* the latest application of a pure function: its inputs and results
  routerOwner,        \* DollarRouter.owner
  allowedToken,       \* DollarRouter.allowedToken: the tokens mapped to true
  balances,           \* the ERC-20 ledgers: token -> holder -> amount
  routerResult,       \* outcome of the DollarRouter call made by the latest transaction
  policy,             \* policy_guard.policy: (user, commitment) -> bool
  guardAttester,      \* policy_guard.attester
  guardOwner,         \* policy_guard.ownable: the owner
  guardResult,        \* outcome of the policy_guard call made by the latest transaction
  lastSet,            \* observer: per (user, commitment), the value of the latest successful set_policy
  quick,              \* the quickCheck call: position, locals and result
  receipt_count,          \* merchant_receipts.receipt_count
  receipts,               \* merchant_receipts.receipts: receipt_id -> StoredReceipt
  merchant_receipts,      \* merchant_receipts.merchant_receipts: (merchant, index) -> receipt_id
  payer_receipts,         \* merchant_receipts.payer_receipts: (payer, index) -> receipt_id
  merchant_receipt_count, \* merchant_receipts.merchant_receipt_count
  payer_receipt_count,    \* merchant_receipts.payer_receipt_count
  merchant_total_volume,  \* merchant_receipts.merchant_total_volume
  receiptResult,          \* outcome of the emit_receipt call made by the latest transaction
  emitted                 \* observer: the number of emit_receipt calls that succeeded

pmVars == <<attesterWhitelist, easDb, pmResult, admitted>>
agentVars == <<config, epochSpending, transactionHistory, merchantDatabase, call, approvedSum, analysed>>
routerVars == <<routerOwner, allowedToken, balances, routerResult>>
guardVars == <<policy, guardAttester, guardOwner, guardResult, lastSet>>
receiptStorage == <<receipt_count, receipts, merchant_receipts, payer_receipts,
                    merchant_receipt_count, payer_receipt_count, merchant_total_volume>>
lateVars == <<quick, receiptStorage, receiptResult, emitted>>
extVars == <<routerVars, guardVars, lateVars>>
vars == <<sys, now, attesterWhitelist, easDb, pmResult, admitted,
          config, epochSpending, transactionHistory, merchantDatabase, call, approvedSum,
          analysed, probe, routerOwner, allowedToken, balances, routerResult,
          policy, guardAttester, guardOwner, guardResult, lastSet, quick,
          receiptStorage, receiptResult, emitted>>

(***************************************************************************)
(* merchant_receipts (Cairo)                                               *)
(***************************************************************************)
\* ContractAddress values; "0" is the zero address
ContractAddresses == {"0", "a1", "a2"}

\* what a Map read returns for a receipt_id that was never written
NoStoredReceipt ==
  [payer |-> "0", merchant |-> "0", token_in |-> "0", token_out |-> "0", amount_in |-> 0,
   amount_out |-> 0, nullifier_hash |-> 0, epoch |-> 0, policy_hash |-> 0, timestamp |-> 0]

\* mutant: the amount is not checked
emit_receipt_asserts_NoAmount(payer, merchant, amount_in) ==
  IF payer = "0" \/ merchant = "0" THEN "Invalid address" ELSE "ok"

\* the three asserts of emit_receipt: the error of the first that fails
emit_receipt_asserts(payer, merchant, amount_in) ==
  IF payer = "0" THEN "Invalid address"
  ELSE IF merchant = "0" THEN "Invalid address"
  ELSE IF ~(amount_in > 0) THEN "Amount must be > 0"
  ELSE "ok"

emit_receipt(payer, merchant, token_in, token_out, amount_in, amount_out, nullifier_hash, epoch, policy_hash) ==
  /\ sys = "receipts"
  /\ receipt_count < MaxReceipts
  /\ LET failed == emit_receipt_asserts(payer, merchant, amount_in)
         receipt_id == receipt_count
         receipt == [payer |-> payer, merchant |-> merchant, token_in |-> token_in,
                     token_out |-> token_out, amount_in |-> amount_in,
                     amount_out |-> amount_out, nullifier_hash |-> nullifier_hash,
                     epoch |-> epoch, policy_hash |-> policy_hash, timestamp |-> now]
         merchant_idx == merchant_receipt_count[merchant]
         payer_idx == payer_receipt_count[payer]
         current_volume == merchant_total_volume[merchant]
         result(outcome) == [op |-> "emit_receipt", payer |-> payer, merchant |-> merchant,
                             amount_in |-> amount_in, outcome |-> outcome]
     IN  IF failed # "ok"
           THEN /\ receiptResult' = result(failed)
                /\ UNCHANGED <<receiptStorage, emitted>>
         ELSE IF current_volume + amount_in > MaxVolume
           \* u256 addition panics and the transaction reverts
           THEN /\ receiptResult' = result("u256_add Overflow")
                /\ UNCHANGED <<receiptStorage, emitted>>
         ELSE /\ receipts' = [receipts EXCEPT ![receipt_id] = receipt]
              /\ merchant_receipts' =
                   [merchant_receipts EXCEPT ![<<merchant, merchant_idx>>] = receipt_id]
              /\ merchant_receipt_count' =
                   [merchant_receipt_count EXCEPT ![merchant] = merchant_idx + 1]
              /\ payer_receipts' = [payer_receipts EXCEPT ![<<payer, payer_idx>>] = receipt_id]
              /\ payer_receipt_count' = [payer_receipt_count EXCEPT ![payer] = payer_idx + 1]
              /\ merchant_total_volume' =
                   [merchant_total_volume EXCEPT ![merchant] = current_volume + amount_in]
              /\ receipt_count' = receipt_id + 1
              /\ receiptResult' = result("ok")
              /\ emitted' = emitted + 1
  /\ UNCHANGED <<sys, routerVars, guardVars, quick, probe, now, pmVars, agentVars>>

\* get_merchant_receipt_at_index, for index < merchant_receipt_count[merchant]
get_merchant_receipt_at_index(merchant, index) == receipts[merchant_receipts[<<merchant, index>>]]

\* get_payer_receipt_at_index, for index < payer_receipt_count[payer]
get_payer_receipt_at_index(payer, index) == receipts[payer_receipts[<<payer, index>>]]

(***************************************************************************)
(* MockEAS                                                                 *)
(***************************************************************************)
getAttestation(uid) == easDb[uid]

isAttestationValid(uid) ==
  LET m == easDb[uid]
  IN  m.attester # ZeroAddress /\ (m.expirationTime = 0 \/ m.expirationTime >= now)

(***************************************************************************)
(* CompliancePaymaster                                                     *)
(***************************************************************************)
\* mutant: the epoch word is left out of the hashed bytes
_policyHash_NoEpoch(userOpHash, epoch) == Keccak256(<<userOpHash, 1>>)

\* keccak256 over the 64 bytes mstore(p, userOpHash), mstore(p + 0x20, epoch)
_policyHash(userOpHash, epoch) == Keccak256(<<userOpHash, epoch>>)

\* mutant: any attester passes
attesterWhitelisted_Any(attester) == TRUE

\* attesterWhitelist[a.attester]
attesterWhitelisted(attester) == attester \in attesterWhitelist

\* require(d.length >= 20 + 32*3); abi.decode(d[20:], (PaymasterData))
_decode(d) ==
  IF d.len >= PMD_MIN_LENGTH
    THEN [ok |-> TRUE, attUid |-> d.attUid, policyHash |-> d.policyHash, epoch |-> d.epoch]
    ELSE [ok |-> FALSE]

\* mutant: the binding check comes before the attestation checks
ValidateOutcome_BindingFirst(caller, payload, userOpHash) ==
  IF caller # ENTRY_POINT THEN "NotEntryPoint"
  ELSE LET pmd == _decode(payload) IN
    IF ~pmd.ok THEN "PMD_TOO_SHORT"
    ELSE IF _policyHash(userOpHash, pmd.epoch) # pmd.policyHash THEN "POLICY_MISMATCH"
    ELSE IF ~isAttestationValid(pmd.attUid) THEN "InvalidAttestation"
    ELSE LET a == getAttestation(pmd.attUid) IN
      IF a.schema # SCHEMA_UID THEN "InvalidAttestation"
      ELSE IF ~attesterWhitelisted(a.attester) THEN "AttesterNotWhitelisted"
      ELSE IF a.expirationTime # 0 /\ a.expirationTime < now THEN "ExpiredAttestation"
      ELSE "accepted"

\* the checks of validatePaymasterUserOp in the order of the code; the result
\* is "accepted" or the error the call reverts with
\* the same with the payload decoded before the caller is checked
ValidateOutcome_DecodeFirst(caller, payload, userOpHash) ==
  IF ~_decode(payload).ok THEN "PMD_TOO_SHORT"
  ELSE IF caller # ENTRY_POINT THEN "NotEntryPoint"
  ELSE IF ~isAttestationValid(payload.attUid) THEN "InvalidAttestation"
  ELSE LET a == getAttestation(payload.attUid) IN
    IF a.schema # SCHEMA_UID THEN "InvalidAttestation"
    ELSE IF ~attesterWhitelisted(a.attester) THEN "AttesterNotWhitelisted"
    ELSE IF a.expirationTime # 0 /\ a.expirationTime < now THEN "ExpiredAttestation"
    ELSE IF _policyHash(userOpHash, payload.epoch) # payload.policyHash THEN "POLICY_MISMATCH"
    ELSE "accepted"

ValidateOutcome(caller, payload, userOpHash) ==
  IF caller # ENTRY_POINT THEN "NotEntryPoint"
  ELSE LET pmd == _decode(payload) IN
    IF ~pmd.ok THEN "PMD_TOO_SHORT"
    ELSE IF ~isAttestationValid(pmd.attUid) THEN "InvalidAttestation"
    ELSE LET a == getAttestation(pmd.attUid) IN
      IF a.schema # SCHEMA_UID THEN "InvalidAttestation"
      ELSE IF ~attesterWhitelisted(a.attester) THEN "AttesterNotWhitelisted"
      ELSE IF a.expirationTime # 0 /\ a.expirationTime < now THEN "ExpiredAttestation"
      ELSE IF _policyHash(userOpHash, pmd.epoch) # pmd.policyHash THEN "POLICY_MISMATCH"
      ELSE "accepted"

\* the observer appends what the paymaster admitted; the log keeps MaxLog entries
LogAdmission(entry) ==
  IF Len(admitted) < MaxLog THEN Append(admitted, entry) ELSE admitted

validatePaymasterUserOp(caller, payload, userOpHash, requiredPreFund) ==
  /\ sys = "paymaster"
  /\ LET outcome == ValidateOutcome(caller, payload, userOpHash) IN
       /\ pmResult' = [op |-> "validate", caller |-> caller, payload |-> payload,
                       userOpHash |-> userOpHash, requiredPreFund |-> requiredPreFund,
                       outcome |-> outcome]
       /\ admitted' = IF outcome = "accepted"
                        THEN LogAdmission([userOpHash |-> userOpHash, epoch |-> payload.epoch,
                                           amount |-> requiredPreFund])
                        ELSE admitted
  /\ UNCHANGED <<sys, extVars, probe, now, attesterWhitelist, easDb, agentVars>>

\* MVP: no accounting
postOp(caller) ==
  /\ sys = "paymaster"
  /\ pmResult' = [op |-> "postOp", caller |-> caller,
                  outcome |-> IF caller # ENTRY_POINT THEN "NotEntryPoint" ELSE "ok"]
  /\ UNCHANGED <<sys, extVars, probe, now, attesterWhitelist, easDb, admitted, agentVars>>

\* MVP: public
setAttester(who, ok) ==
  /\ sys = "paymaster"
  /\ attesterWhitelist' = IF ok THEN attesterWhitelist \cup {who} ELSE attesterWhitelist \ {who}
  /\ pmResult' = NoCall
  /\ UNCHANGED <<sys, extVars, probe, now, easDb, admitted, agentVars>>

\* MockEAS.set
set(uid, schema, attester, exp, dataHash) ==
  /\ sys = "paymaster"
  /\ easDb' = [easDb EXCEPT ![uid] =
                 [uid |-> uid, schema |-> schema, attester |-> attester, time |-> now,
                  expirationTime |-> exp, revocationTime |-> 0, dataHash |-> dataHash]]
  /\ pmResult' = NoCall
  /\ UNCHANGED <<sys, extVars, probe, now, attesterWhitelist, admitted, agentVars>>

\* a later block
PaymasterTick(t) ==
  /\ sys = "paymaster"
  /\ t > now
  /\ now' = t
  /\ pmResult' = NoCall
  /\ UNCHANGED <<sys, extVars, probe, attesterWhitelist, easDb, admitted, agentVars>>

(***************************************************************************)
(* DollarRouter (DollarRouter.sol).  The tokens are ERC-20 ledgers that    *)
(* move what they are asked to move; the swap router delivers the output   *)
(* it reports.                                                             *)
(***************************************************************************)
\* mutant: every token passes
tokenAllowed_Any(token) == TRUE

\* allowedToken[tokenIn]
tokenAllowed(token) == token \in allowedToken

\* a ledger after `amount` moved from one holder to another
Transfer(ledgers, token, from, to, amount) ==
  IF from = to THEN ledgers
  ELSE [ledgers EXCEPT ![token][from] = @ - amount, ![token][to] = @ + amount]

\* DollarRouter.setAllowed
setAllowed(caller, token, ok) ==
  /\ sys = "router"
  /\ IF caller # routerOwner
       THEN /\ routerResult' = [op |-> "setAllowed", caller |-> caller, outcome |-> "NOT_OWNER"]
            /\ UNCHANGED allowedToken
       ELSE /\ routerResult' = [op |-> "setAllowed", caller |-> caller, outcome |-> "ok"]
            /\ allowedToken' = IF ok THEN allowedToken \cup {token} ELSE allowedToken \ {token}
  /\ UNCHANGED <<sys, guardVars, routerOwner, balances, now, probe, lateVars, pmVars, agentVars>>

\* DollarRouter.payWithAnyStable; swapOut is the amountOut the swap router
\* reports for a swap of amountIn
payWithAnyStable(caller, tokenIn, amountIn, merchant, minOut, swapOut) ==
  /\ sys = "router"
  /\ LET result(outcome, amountOut) ==
           [op |-> "payWithAnyStable", caller |-> caller, tokenIn |-> tokenIn,
            amountIn |-> amountIn, merchant |-> merchant, minOut |-> minOut,
            outcome |-> outcome, amountOut |-> amountOut, before |-> balances]
         pulled == Transfer(balances, tokenIn, caller, "this", amountIn)
         swapped == Transfer(Transfer(pulled, tokenIn, "this", "pool", amountIn),
                             USDC, "pool", "this", swapOut)
         amountOut == IF tokenIn = USDC THEN amountIn ELSE swapOut
         held == IF tokenIn = USDC THEN pulled ELSE swapped
     IN  IF ~tokenAllowed(tokenIn)
           THEN routerResult' = result("TOKEN_NOT_ALLOWED", 0) /\ UNCHANGED balances
         ELSE IF balances[tokenIn][caller] < amountIn
           THEN routerResult' = result("TRANSFER_FROM_FAILED", 0) /\ UNCHANGED balances
         ELSE IF tokenIn # USDC /\ balances[USDC]["pool"] < swapOut
           THEN routerResult' = result("swap reverted", 0) /\ UNCHANGED balances
         ELSE IF amountOut < minOut
           THEN routerResult' = result("SLIPPAGE", amountOut) /\ UNCHANGED balances
         ELSE /\ routerResult' = result("ok", amountOut)
              /\ balances' = Transfer(held, USDC, "this", merchant, amountOut)
  /\ UNCHANGED <<sys, guardVars, routerOwner, allowedToken, now, probe, lateVars, pmVars, agentVars>>

(***************************************************************************)
(* policy_guard (Starknet, lib.cairo)                                      *)
(***************************************************************************)
\* mutant: any caller passes
_assert_only_attester_Any(caller) == TRUE

\* assert(caller == attester, Errors::ONLY_ATTESTER)
_assert_only_attester(caller) == caller = guardAttester

set_policy(caller, user, commitment, allowed) ==
  /\ sys = "guard"
  /\ IF ~_assert_only_attester(caller)
       THEN /\ guardResult' = [op |-> "set_policy", caller |-> caller,
                               outcome |-> "Only attester can set policy"]
            /\ UNCHANGED <<policy, lastSet>>
       ELSE /\ guardResult' = [op |-> "set_policy", caller |-> caller, outcome |-> "ok"]
            /\ policy' = [policy EXCEPT ![<<user, commitment>>] = allowed]
            /\ lastSet' = [k \in PolicyKeys |->
                             IF k[1] = user /\ k[2] = commitment THEN allowed ELSE lastSet[k]]
  /\ UNCHANGED <<sys, routerVars, guardAttester, guardOwner, now, probe, lateVars, pmVars, agentVars>>

check_policy(caller, user, commitment) ==
  /\ sys = "guard"
  /\ guardResult' = [op |-> "check_policy", caller |-> caller, user |-> user,
                     commitment |-> commitment, outcome |-> policy[<<user, commitment>>]]
  /\ UNCHANGED <<sys, routerVars, policy, lastSet, guardAttester, guardOwner, now, probe, lateVars,
                 pmVars, agentVars>>

set_attester(caller, new_attester) ==
  /\ sys = "guard"
  /\ IF caller # guardOwner
       THEN /\ guardResult' = [op |-> "set_attester", caller |-> caller,
                               outcome |-> "Caller is not the owner"]
            /\ UNCHANGED guardAttester
       ELSE IF new_attester = GuardZero
       THEN /\ guardResult' = [op |-> "set_attester", caller |-> caller,
                               outcome |-> "Attester cannot be zero"]
            /\ UNCHANGED guardAttester
       ELSE /\ guardResult' = [op |-> "set_attester", caller |-> caller, outcome |-> "ok"]
            /\ guardAttester' = new_attester
  /\ UNCHANGED <<sys, routerVars, policy, lastSet, guardOwner, now, probe, lateVars, pmVars, agentVars>>

\* OwnableMixinImpl.transfer_ownership
transfer_ownership(caller, new_owner) ==
  /\ sys = "guard"
  /\ IF caller # guardOwner \/ new_owner = GuardZero
       THEN /\ guardResult' = [op |-> "transfer_ownership", caller |-> caller,
                               outcome |-> "reverted"]
            /\ UNCHANGED guardOwner
       ELSE /\ guardResult' = [op |-> "transfer_ownership", caller |-> caller, outcome |-> "ok"]
            /\ guardOwner' = new_owner
  /\ UNCHANGED <<sys, routerVars, policy, lastSet, guardAttester, now, probe, lateVars, pmVars, agentVars>>

(***************************************************************************)
(* PolicyValidator (policyValidator.ts)                                    *)
(***************************************************************************)
isValidAddress(address) == address \in WellFormedAddresses

\* this.epochSpending.get(epoch) || 0n
getEpochSpending(spending, epoch) ==
  IF epoch \in DOMAIN spending THEN spending[epoch] ELSE 0

\* mutant: the entry is overwritten with the amount
recordSpending_Overwrite(spending, epoch, amount) ==
  [e \in DOMAIN spending \cup {epoch} |-> IF e = epoch THEN amount ELSE spending[e]]

\* mutant: the amount is added to every entry
recordSpending_EveryEpoch(spending, epoch, amount) ==
  [e \in DOMAIN spending \cup {epoch} |-> getEpochSpending(spending, e) + amount]

\* this.epochSpending.set(epoch, current + amount)
recordSpending(spending, epoch, amount) ==
  [e \in DOMAIN spending \cup {epoch} |->
     IF e = epoch THEN getEpochSpending(spending, epoch) + amount ELSE spending[e]]

\* mutant: the requested amount is left out of the comparison
EpochLimitExceeded_NoAmount(cfg, currentSpending, amountIn) ==
  currentSpending > cfg.maxTransactionValue * CAP_FACTOR

\* `currentSpending + request.amountIn > this.config.maxTransactionValue * 10n`
EpochLimitExceeded(cfg, currentSpending, amountIn) ==
  currentSpending + amountIn > cfg.maxTransactionValue * CAP_FACTOR

\* `Math.abs(epoch - currentEpoch) <= 1`
EpochValid(epoch, currentEpoch) ==
  (IF epoch >= currentEpoch THEN epoch - currentEpoch ELSE currentEpoch - epoch) <= 1

\* PolicyValidator.validate(request, epoch), read at clock t
validate(cfg, spending, request, epoch, t) ==
  LET currentSpending == getEpochSpending(spending, epoch)
      capRemaining == cfg.maxTransactionValue * CAP_FACTOR - currentSpending
      epochValid == EpochValid(epoch, CurrentEpoch(t))
      violations ==
        (IF cfg.allowedTokens # {} /\ toLowerCase(request.tokenIn) \notin cfg.allowedTokens
           THEN {"TokenNotInAllowlist"} ELSE {})
        \cup (IF cfg.allowedMerchants # {} /\ toLowerCase(request.merchant) \notin cfg.allowedMerchants
           THEN {"MerchantNotInAllowlist"} ELSE {})
        \cup (IF request.amountIn > cfg.maxTransactionValue THEN {"AmountExceedsMax"} ELSE {})
        \cup (IF request.amountIn = 0 THEN {"AmountZero"} ELSE {})
        \cup (IF EpochLimitExceeded(cfg, currentSpending, request.amountIn)
           THEN {"EpochLimitExceeded"} ELSE {})
        \cup (IF ~epochValid THEN {"InvalidEpoch"} ELSE {})
        \cup (IF ~isValidAddress(request.merchant) THEN {"InvalidMerchantAddress"} ELSE {})
        \cup (IF ~isValidAddress(request.tokenIn) THEN {"InvalidTokenAddress"} ELSE {})
      warnings == IF capRemaining < cfg.maxTransactionValue THEN {"LowEpochCap"} ELSE {}
  IN  [valid |-> violations = {}, violations |-> violations, warnings |-> warnings,
       capRemaining |-> capRemaining, epochValid |-> epochValid]

(***************************************************************************)
(* RiskAnalyzer (riskAnalyzer.ts)                                          *)
(***************************************************************************)
RECURSIVE SumRange(_, _, _)
\* the sum of amounts[lo..hi], by halves to keep the evaluation shallow
SumRange(amounts, lo, hi) ==
  IF lo > hi THEN 0
  ELSE IF lo = hi THEN amounts[lo]
  ELSE SumRange(amounts, lo, (lo + hi) \div 2) + SumRange(amounts, (lo + hi) \div 2 + 1, hi)

\* amounts.reduce((sum, a) => sum + a, 0n)
SumAmounts(amounts) == SumRange(amounts, 1, Len(amounts))

\* the loop left after its first iteration
sqrtLoop_OneStep(value, x, y) == y

RECURSIVE sqrtLoop(_, _, _)
\* while (y < x) { x = y; y = (x + value / x) / 2n; }
sqrtLoop(value, x, y) ==
  IF y < x THEN sqrtLoop(value, y, (y + value \div y) \div 2) ELSE x

\* the values x takes at the loop test, in order
RECURSIVE sqrtTrace(_, _, _)
sqrtTrace(value, x, y) ==
  IF y < x THEN <<x>> \o sqrtTrace(value, y, (y + value \div y) \div 2) ELSE <<x>>

sqrt(value) ==
  IF value < 0 THEN 0
  ELSE IF value < 2 THEN value
  ELSE sqrtLoop(value, value, (value + 1) \div 2)

calculateStdDev(amounts, avg) ==
  IF Len(amounts) = 0 THEN 0
  ELSE LET squaredDiffs ==
             [i \in 1..Len(amounts) |->
                LET diff == IF amounts[i] > avg THEN amounts[i] - avg ELSE avg - amounts[i]
                IN  diff * diff]
       IN  sqrt(SumAmounts(squaredDiffs) \div Len(amounts))

\* mutant: the outlier check runs on any non-empty history
isUnusualAmount_NoMinimum(history, amount) ==
  IF Len(history) = 0 THEN FALSE
  ELSE LET amounts == [i \in 1..Len(history) |-> history[i].amountIn]
           avg == SumAmounts(amounts) \div Len(amounts)
           stdDev == calculateStdDev(amounts, avg)
       IN  amount > avg + stdDev * 2 \/ amount < avg - stdDev * 2

isUnusualAmount(history, amount) ==
  IF Len(history) < MIN_SAMPLES THEN FALSE
  ELSE LET amounts == [i \in 1..Len(history) |-> history[i].amountIn]
           avg == SumAmounts(amounts) \div Len(amounts)
           stdDev == calculateStdDev(amounts, avg)
       IN  amount > avg + stdDev * 2 \/ amount < avg - stdDev * 2

isUnknownToken(token) == toLowerCase(token) \notin knownTokens

\* For MVP, return 0
getRecentFailures(merchant) == 0

checkVelocity(history, merchant) ==
  Cardinality({i \in 1..Len(history) :
                 toLowerCase(history[i].merchant) = toLowerCase(merchant)}) > VELOCITY_LIMIT

identifyRiskFactors(history, db, request) ==
  [merchantUnknown |-> toLowerCase(request.merchant) \notin DOMAIN db,
   tokenUnknown |-> isUnknownToken(request.tokenIn),
   amountUnusual |-> isUnusualAmount(history, request.amountIn),
   gasUnusual |-> FALSE,
   recentFailures |-> getRecentFailures(request.merchant),
   velocityExceeded |-> checkVelocity(history, request.merchant)]

Min(a, b) == IF a < b THEN a ELSE b
Max(a, b) == IF a > b THEN a ELSE b

\* mutant: the sum is not capped
calculateRiskScore_NoCap(factors, policyValid) ==
  (IF ~policyValid THEN 100 ELSE 0)
  + (IF factors.merchantUnknown THEN 20 ELSE 0)
  + (IF factors.tokenUnknown THEN 15 ELSE 0)
  + (IF factors.amountUnusual THEN 25 ELSE 0)
  + (IF factors.gasUnusual THEN 10 ELSE 0)
  + (IF factors.velocityExceeded THEN 30 ELSE 0)
  + factors.recentFailures * 10

calculateRiskScore(factors, policyValid) ==
  Min((IF ~policyValid THEN 100 ELSE 0)
      + (IF factors.merchantUnknown THEN 20 ELSE 0)
      + (IF factors.tokenUnknown THEN 15 ELSE 0)
      + (IF factors.amountUnusual THEN 25 ELSE 0)
      + (IF factors.gasUnusual THEN 10 ELSE 0)
      + (IF factors.velocityExceeded THEN 30 ELSE 0)
      + factors.recentFailures * 10, 100)

\* confidence in tenths
calculateConfidence(db, request, factors) ==
  LET key == toLowerCase(request.merchant)
      c == 10 - (IF factors.merchantUnknown THEN 2 ELSE 0)
              - (IF factors.tokenUnknown THEN 1 ELSE 0)
              + (IF key \in DOMAIN db /\ db[key].transactionCount > 10 THEN 1 ELSE 0)
  IN  Max(0, Min(10, c))

\* mutant: a score of 30 still counts as low risk
decisionLogic_LowInclusive(policyValid, riskScore, confidence, flags) ==
  [riskScore |-> riskScore, confidence |-> confidence, flags |-> flags, suggestedAction |-> "",
   approved |-> policyValid /\ riskScore < 60,
   reason |-> IF policyValid /\ riskScore <= 30 THEN "Low risk transaction" ELSE "other"]

\* "Decision logic based on risk score": the if-chain of analyze
decisionLogic(policyValid, riskScore, confidence, flags) ==
  LET d == [riskScore |-> riskScore, confidence |-> confidence]
  IN  IF ~policyValid
        THEN d @@ [approved |-> FALSE, reason |-> "Policy validation failed", flags |-> flags,
                   suggestedAction |-> "Fix policy violations and retry"]
      ELSE IF riskScore < 30
        THEN d @@ [approved |-> TRUE, reason |-> "Low risk transaction", flags |-> flags,
                   suggestedAction |-> ""]
      ELSE IF riskScore < 60
        THEN d @@ [approved |-> TRUE,
                   reason |-> "Medium risk transaction - approved with monitoring",
                   flags |-> flags \cup {"REQUIRES_MONITORING"}, suggestedAction |-> ""]
      ELSE IF riskScore < 80
        THEN d @@ [approved |-> FALSE, reason |-> "High risk transaction - requires review",
                   flags |-> flags \cup {"REQUIRES_REVIEW"},
                   suggestedAction |-> "Manual review required"]
      ELSE d @@ [approved |-> FALSE, reason |-> "Very high risk transaction - rejected",
                 flags |-> flags, suggestedAction |-> "Transaction blocked due to high risk"]

\* the AgentDecision analyze returns
analyzeDecision(history, db, request, policyValid) ==
  LET factors == identifyRiskFactors(history, db, request)
      riskScore == calculateRiskScore(factors, policyValid)
      flags == (IF factors.merchantUnknown THEN {"UNKNOWN_MERCHANT"} ELSE {})
               \cup (IF factors.tokenUnknown THEN {"UNKNOWN_TOKEN"} ELSE {})
               \cup (IF factors.amountUnusual THEN {"UNUSUAL_AMOUNT"} ELSE {})
               \cup (IF factors.velocityExceeded THEN {"HIGH_VELOCITY"} ELSE {})
               \cup (IF factors.recentFailures > 0 THEN {"RECENT_FAILURES"} ELSE {})
  IN  decisionLogic(policyValid, riskScore, calculateConfidence(db, request, factors), flags)

\* mutant: the oldest HISTORY_LIMIT requests are kept
pushHistory_KeepOldest(history, request) ==
  LET h == Append(history, request)
  IN  IF Len(h) > HISTORY_LIMIT THEN SubSeq(h, 1, HISTORY_LIMIT) ELSE h

\* this.transactionHistory.push(request); keep the last HISTORY_LIMIT
pushHistory(history, request) ==
  LET h == Append(history, request)
  IN  IF Len(h) > HISTORY_LIMIT THEN SubSeq(h, Len(h) - HISTORY_LIMIT + 1, Len(h)) ELSE h

(***************************************************************************)
(* TransactionBuilder (transactionBuilder.ts)                              *)
(***************************************************************************)
\* encodeFunctionData of emitReceipt(...); the eighth argument is the clock's epoch
encodePaymentCall(request, t) ==
  <<"emitReceipt", ZeroAddress, request.merchant, request.tokenIn, request.tokenIn,
    request.amountIn, request.amountIn, Keccak256(<<"{}">>), CurrentEpoch(t), "0">>

calculateUserOpHash(request, callData) ==
  Keccak256(<<request.merchant, request.tokenIn, request.amountIn, callData>>)

\* baseGas + callGas + paymasterGas
estimateGas(request) == 21000 + 100000 + 50000

buildPlan(request, epoch, t) ==
  LET userOpHash == calculateUserOpHash(request, encodePaymentCall(request, t))
  IN  [userOpHash |-> userOpHash,
       policyHash |-> Keccak256(<<userOpHash, epoch>>),
       target |-> request.merchant,
       gasEstimate |-> estimateGas(request),
       epoch |-> epoch]

\* TransactionBuilder.validate(plan).valid; both hashes are 0x + 64 hex digits
planValid(plan) ==
  /\ plan.gasEstimate <= 1000000
  /\ plan.gasEstimate # 0
  /\ isValidAddress(plan.target)

(***************************************************************************)
(* AttestationManager (attestationManager.ts)                              *)
(***************************************************************************)
\* mutant: the prompt is left out of the hashed data
encodeAttestationData_NoPrompt(modelId, prompt, planDescription, userOpHash, policyHash, epoch) ==
  Keccak256(<<Keccak256(<<modelId>>), Keccak256(<<planDescription>>),
              userOpHash, policyHash, epoch>>)

\* keccak256 of the packed words: the hashes of the three strings, then
\* userOpHash, policyHash and the epoch
encodeAttestationData(modelId, prompt, planDescription, userOpHash, policyHash, epoch) ==
  Keccak256(<<Keccak256(<<modelId>>), Keccak256(<<prompt>>), Keccak256(<<planDescription>>),
              userOpHash, policyHash, epoch>>)

createAttestation(cfg, plan, modelId, prompt, planDescription, t) ==
  LET data == encodeAttestationData(modelId, prompt, planDescription,
                                    plan.userOpHash, plan.policyHash, plan.epoch)
  IN  [uid |-> Keccak256(<<data, cfg.paymasterAddress, t>>),
       schema |-> cfg.schemaUID,
       attester |-> cfg.paymasterAddress,
       recipient |-> plan.target,
       time |-> t,
       expirationTime |-> t + ATTESTATION_TTL,
       data |-> data]

\* mutant: an attestation is expired from its expirationTime on
verifyAttestation_ExpiredAtLimit(cfg, attestation, t) ==
  IF attestation.expirationTime > 0 /\ attestation.expirationTime <= t THEN FALSE
  ELSE IF attestation.schema # cfg.schemaUID THEN FALSE
  ELSE TRUE

verifyAttestation(cfg, attestation, t) ==
  IF attestation.expirationTime > 0 /\ attestation.expirationTime < t THEN FALSE
  ELSE IF attestation.schema # cfg.schemaUID THEN FALSE
  ELSE TRUE

(***************************************************************************)
(* Byte strings.  A byte string is a sequence of numbers 0..255; a bytes32  *)
(* value has 32 of them, an address 20.  The constructions of the policy    *)
(* hash and of paymasterAndData, byte by byte.                              *)
(***************************************************************************)
\* n zero bytes
Zeros(n) == [k \in 1..n |-> 0]
\* the bytes32 values of the model
Bytes32Values == {[k \in 1..32 |-> (k * m) % 256] : m \in {0, 1, 7, 255}}
\* the paymaster's address
Addresses20 == {[k \in 1..20 |-> (k * 11) % 256]}
\* epochs: one, two, three and four significant bytes
CodecEpochs == {0, 1, 255, 256, 65535, 202511, 16777216, 2147483647}

\* mutant: the low byte is written to b[0]
u256ToBytes_LittleEndian(n) == [k \in 1..32 |-> IF k = 1 THEN n % 256 ELSE 0]

RECURSIVE u256ToBytesLoop(_, _, _)
\* for (let i = 31; i >= 0; i--) { b[i] = Number(x & 0xffn); x >>= 8n; }
u256ToBytesLoop(b, x, i) ==
  IF i < 0 THEN b
  ELSE u256ToBytesLoop([b EXCEPT ![i + 1] = x % 256], x \div 256, i - 1)

\* TransactionBuilder.u256ToBytes; u256ToBytes32 of the runner is the same loop
u256ToBytes(n) == u256ToBytesLoop(Zeros(32), n, 31)

RECURSIVE toString16(_)
\* BigInt.prototype.toString(16): the hex digits, most significant first
toString16(n) == IF n < 16 THEN <<n>> ELSE Append(toString16(n \div 16), n % 16)

\* viem's encoding of a uint256 in encodePacked: the hex digits of the value
\* padded on the left to 64 digits, two digits to a byte
encodePackedUint256(n) ==
  LET digits == toString16(n)
      padded == Zeros(64 - Len(digits)) \o digits
  IN  [k \in 1..32 |-> padded[2 * k - 1] * 16 + padded[2 * k]]

\* TransactionBuilder.buildPlan: the policy hash of the plan
planPolicyHash(userOpHash, epoch) == Keccak256(userOpHash \o u256ToBytes(epoch))

\* AttestationManager.calculatePolicyHash
calculatePolicyHash(userOpHash, epoch) == Keccak256(userOpHash \o encodePackedUint256(epoch))

RECURSIVE shr(_, _)
\* the value shifted right by n bytes
shr(v, n) == IF n = 0 THEN v ELSE shr(v \div 256, n - 1)

\* mstore(p, v): the 32 bytes of a word in memory, most significant first
mstore(v) == [k \in 1..32 |-> shr(v, 32 - k) % 256]

\* CompliancePaymaster._policyHash on bytes: keccak256 of the 0x40 bytes at p
\* after mstore(p, userOpHash) and mstore(add(p, 0x20), epoch)
_policyHashBytes(userOpHash, epoch) == Keccak256(userOpHash \o mstore(epoch))

\* mutant: the address is padded to a word, as abi.encode does
buildPaymasterAndData_AbiEncode(paymasterAddress, uid, policyHash, epoch) ==
  Zeros(12) \o paymasterAddress \o uid \o policyHash \o encodePackedUint256(epoch)

\* AttestationManager.buildPaymasterAndData:
\* encodePacked(['address', 'bytes32', 'bytes32', 'uint256'], ...)
buildPaymasterAndData(paymasterAddress, uid, policyHash, epoch) ==
  paymasterAddress \o uid \o policyHash \o encodePackedUint256(epoch)

RECURSIVE mload(_)
\* the uint256 a big-endian byte string stands for
mload(bytes) ==
  IF bytes = <<>> THEN 0 ELSE mload(SubSeq(bytes, 1, Len(bytes) - 1)) * 256 + bytes[Len(bytes)]

\* CompliancePaymaster._decode on bytes: abi.decode(d[20:], (PaymasterData))
_decodeBytes(d) ==
  IF Len(d) >= PMD_MIN_LENGTH
    THEN [ok |-> TRUE, attUid |-> SubSeq(d, 21, 52), policyHash |-> SubSeq(d, 53, 84),
          epoch |-> mload(SubSeq(d, 85, 116))]
    ELSE [ok |-> FALSE]

\* the digests node:crypto offers the runner; neither is keccak256
Sha3_256(input) == <<"sha3-256", input>>
Sha256(input) == <<"sha256", input>>

\* keccakHex of the runner: createHash("sha3-256"), or createHash("sha256")
\* where the OpenSSL build has no sha3-256
keccakHex(input, sha3Available) == IF sha3Available THEN Sha3_256(input) ELSE Sha256(input)

\* hexToBuf of the runner: shorter inputs are left-padded to 32 bytes
hexToBuf(bytes) == IF Len(bytes) < 32 THEN Zeros(32 - Len(bytes)) \o bytes ELSE bytes

\* the policyHash the runner prints
runnerPolicyHash(userOpHash, epoch, sha3Available) ==
  keccakHex(hexToBuf(userOpHash) \o u256ToBytes(epoch), sha3Available)

(***************************************************************************)
(* zkAgent.processPayment (agent.ts).  A call runs from one await to the   *)
(* next in one step; call[p].pc names the await it is suspended at.        *)
(***************************************************************************)
\* validateConfiguration().valid; rpcUrl has a default
validateConfiguration(cfg) == cfg.paymasterAddress # ""

\* `options.epoch || parseInt(Date.now().toString().slice(0, 6))`
epochOf(optionEpoch, t) == IF optionEpoch # 0 THEN optionEpoch ELSE CurrentEpoch(t)

\* analyses the behaviour has added to the history it started with
AnalysesSoFar == Len(analysed)

\* processPayment calls that are past their start and will still call analyze
AnalysesPending ==
  Cardinality({q \in Procs : call[q].pc \in {"buildPlan", "validate"} /\ ~call[q].skipRiskAnalysis})

Finish(p, c, outcome) == call' = [call EXCEPT ![p] = [c EXCEPT !.pc = "done", !.outcome = outcome]]

\* mutant: the spend is recorded before the verification result is looked at
commitSpend_BeforeVerify(spending, epoch, amount, attestationValid) ==
  recordSpending(spending, epoch, amount)

\* the spend after the verification of the attestation: agent.ts, lines 109-115
commitSpend(spending, epoch, amount, attestationValid) ==
  IF attestationValid THEN recordSpending(spending, epoch, amount) ELSE spending

\* mutant: with the risk analysis skipped the request is approved
skipDecision_Approve(valid) ==
  [approved |-> TRUE, reason |-> "Policy valid, risk analysis skipped",
   riskScore |-> 0, confidence |-> 10, flags |-> {}, suggestedAction |-> ""]

\* the decision of options.skipRiskAnalysis: agent.ts, lines 86-92
skipDecision(valid) ==
  [approved |-> valid,
   reason |-> IF valid THEN "Policy valid, risk analysis skipped" ELSE "Policy validation failed",
   riskScore |-> 0, confidence |-> 10, flags |-> {}, suggestedAction |-> ""]

\* entry to the first await (buildPlan -> estimateGas)
Start(p, request, optionEpoch, skip) ==
  /\ sys \in AgentSystems
  /\ call[p].pc = "idle"
  /\ sys \in SequentialSystems => /\ p = 1
                                  /\ skip \/ AnalysesSoFar + AnalysesPending < MaxAnalyses
  /\ sys \in {"history", "expiry", "quick"} => /\ request \in BatchRequests
                                               /\ optionEpoch = 0
  /\ sys = "batch" => /\ request \in BatchRequests
                      /\ optionEpoch = 0
                      /\ ~skip
  /\ LET c == [IdleCall EXCEPT !.request = request, !.skipRiskAnalysis = skip,
                               !.spendBefore = epochSpending]
     IN  IF ~validateConfiguration(config)
           THEN Finish(p, c, "threw: Configuration invalid")
           ELSE LET epoch == epochOf(optionEpoch, now) IN
                call' = [call EXCEPT ![p] =
                           [c EXCEPT !.pc = "buildPlan", !.epoch = epoch,
                                     !.transactionPlan = buildPlan(request, epoch, now)]]
  /\ UNCHANGED <<sys, extVars, probe, now, pmVars, config, epochSpending, transactionHistory, analysed,
                 merchantDatabase, approvedSum>>

\* buildPlan resolved: validate the plan, call policyValidator.validate
Validate(p) ==
  /\ sys \in AgentSystems
  /\ call[p].pc = "buildPlan"
  /\ LET c == call[p] IN
       IF ~planValid(c.transactionPlan)
         THEN Finish(p, c, "threw: Transaction plan invalid")
         ELSE call' = [call EXCEPT ![p] =
                         [c EXCEPT !.pc = "validate",
                                   !.policyValidation =
                                      validate(config, epochSpending, c.request, c.epoch, now)]]
  /\ UNCHANGED <<sys, extVars, probe, now, pmVars, config, epochSpending, transactionHistory, analysed,
                 merchantDatabase, approvedSum>>

\* policy validation resolved: the decision.  With skipRiskAnalysis the call
\* goes on to step 5 without an await in between.
Analyze(p) ==
  /\ sys \in AgentSystems
  /\ call[p].pc = "validate"
  /\ LET c == call[p] IN
       IF c.skipRiskAnalysis
         THEN LET d == skipDecision(c.policyValidation.valid)
              IN  /\ IF d.approved
                       THEN call' = [call EXCEPT ![p] =
                              [c EXCEPT !.pc = "createAttestation", !.decision = d,
                                        !.attestation =
                                           createAttestation(config, c.transactionPlan, "model",
                                                             c.request, c.request, now)]]
                       ELSE Finish(p, [c EXCEPT !.decision = d], "returned")
                  /\ UNCHANGED <<transactionHistory, analysed>>
         ELSE /\ call' = [call EXCEPT ![p] =
                    [c EXCEPT !.pc = "analyze",
                              !.decision = analyzeDecision(transactionHistory, merchantDatabase,
                                                           c.request, c.policyValidation.valid)]]
              /\ transactionHistory' = pushHistory(transactionHistory, c.request)
              /\ analysed' = Append(analysed, c.request)
  /\ UNCHANGED <<sys, extVars, probe, now, pmVars, config, epochSpending, merchantDatabase, approvedSum>>

\* analyze resolved: create the attestation of an approved request, or return
Attest(p) ==
  /\ sys \in AgentSystems
  /\ call[p].pc = "analyze"
  /\ LET c == call[p] IN
       IF c.decision.approved
         THEN call' = [call EXCEPT ![p] =
                [c EXCEPT !.pc = "createAttestation",
                          !.attestation = createAttestation(config, c.transactionPlan, "model",
                                                            c.request, c.request, now)]]
         ELSE Finish(p, c, "returned")
  /\ UNCHANGED <<sys, extVars, probe, now, pmVars, config, epochSpending, transactionHistory, analysed,
                 merchantDatabase, approvedSum>>

\* createAttestation resolved: call verifyAttestation
Verify(p) ==
  /\ sys \in AgentSystems
  /\ call[p].pc = "createAttestation"
  /\ call' = [call EXCEPT ![p].pc = "verifyAttestation",
                          ![p].attestationValid = verifyAttestation(config, call[p].attestation, now)]
  /\ UNCHANGED <<sys, extVars, probe, now, pmVars, config, epochSpending, transactionHistory, analysed,
                 merchantDatabase, approvedSum>>

\* verifyAttestation resolved: throw, or record the spend and return the analysis
Record(p) ==
  /\ sys \in AgentSystems
  /\ call[p].pc = "verifyAttestation"
  /\ LET c == call[p] IN
       /\ epochSpending' = commitSpend(epochSpending, c.epoch, c.request.amountIn, c.attestationValid)
       /\ IF c.attestationValid
            THEN /\ Finish(p, c, "returned")
                 /\ approvedSum' = [e \in DOMAIN approvedSum \cup {c.epoch} |->
                                      (IF e \in DOMAIN approvedSum THEN approvedSum[e] ELSE 0)
                                      + (IF e = c.epoch THEN c.request.amountIn ELSE 0)]
            ELSE /\ Finish(p, c, "threw: Attestation verification failed")
                 /\ UNCHANGED approvedSum
  /\ UNCHANGED <<sys, extVars, probe, now, pmVars, config, transactionHistory, analysed, merchantDatabase>>

\* the caller takes the result of a finished call and may call again
Return(p) ==
  /\ sys \in SequentialSystems
  /\ call[p].pc = "done"
  /\ call' = [call EXCEPT ![p] = IdleCall]
  /\ UNCHANGED <<sys, extVars, probe, now, pmVars, config, epochSpending, transactionHistory, analysed,
                 merchantDatabase, approvedSum>>

\* mutant: a payload is built whether or not there is an attestation
buildPaymasterData_NoCheck(analysis) ==
  [status |-> "built", len |-> 20 + 32 * 3, attUid |-> analysis.attestation.uid,
   policyHash |-> analysis.transactionPlan.policyHash, epoch |-> analysis.transactionPlan.epoch]

\* zkAgent.buildPaymasterData: the words of the payload, or the Error thrown
buildPaymasterData(analysis) ==
  IF analysis.attestation = NoAgentAttestation
    THEN [status |-> "threw", error |-> "No attestation available"]
    ELSE [status |-> "built", len |-> 20 + 32 * 3, attUid |-> analysis.attestation.uid,
          policyHash |-> analysis.transactionPlan.policyHash,
          epoch |-> analysis.transactionPlan.epoch]

\* the caller asks for the paymasterAndData of the analysis it was returned
BuildPaymasterData(p) ==
  /\ sys \in AgentSystems
  /\ call[p].pc = "done"
  /\ call[p].outcome = "returned"
  /\ call[p].paymasterData.status = "none"
  /\ call' = [call EXCEPT ![p].paymasterData = buildPaymasterData(call[p])]
  /\ UNCHANGED <<sys, extVars, probe, now, pmVars, config, epochSpending, transactionHistory, analysed,
                 merchantDatabase, approvedSum>>

\* mutant: quickCheck records the spend of a request it approves
quickCheckRecord_Approved(spending, epoch, amount, approved) ==
  IF approved THEN recordSpending(spending, epoch, amount) ELSE spending

\* what quickCheck does to the recorded spend after analyze: it returns
\* decision.approved and makes no recordSpending call
quickCheckRecord(spending, epoch, amount, approved) == spending

\* zkAgent.quickCheck up to its first await: policyValidator.validate for the current epoch
quickCheck(request) ==
  /\ sys = "quick"
  /\ quick.pc \in {"idle", "done"}
  /\ quick.calls < MaxQuickChecks
  /\ LET epoch == CurrentEpoch(now) IN
       quick' = [pc |-> "validate", request |-> request, epoch |-> epoch,
                 policyValidation |-> validate(config, epochSpending, request, epoch, now),
                 result |-> FALSE, calls |-> quick.calls + 1]
  /\ UNCHANGED <<sys, routerVars, guardVars, receiptStorage, receiptResult, emitted, probe, now,
                 pmVars, agentVars>>

\* validate resolved: riskAnalyzer.analyze runs, and quickCheck returns decision.approved
quickCheckAnalyze ==
  /\ sys = "quick"
  /\ quick.pc = "validate"
  /\ LET d == analyzeDecision(transactionHistory, merchantDatabase, quick.request,
                               quick.policyValidation.valid)
     IN  /\ quick' = [quick EXCEPT !.pc = "done", !.result = d.approved]
         /\ epochSpending' = quickCheckRecord(epochSpending, quick.epoch, quick.request.amountIn,
                                               d.approved)
  /\ transactionHistory' = pushHistory(transactionHistory, quick.request)
  /\ analysed' = Append(analysed, quick.request)
  /\ UNCHANGED <<sys, routerVars, guardVars, receiptStorage, receiptResult, emitted, probe, now,
                 pmVars, config, merchantDatabase, call, approvedSum>>

\* RiskAnalyzer.registerMerchant
registerMerchant(info) ==
  /\ sys \in AgentSystems
  /\ merchantDatabase' =
       [k \in DOMAIN merchantDatabase \cup {toLowerCase(info.address)} |->
          IF k = toLowerCase(info.address) THEN info ELSE merchantDatabase[k]]
  /\ UNCHANGED <<sys, extVars, probe, now, pmVars, config, epochSpending, transactionHistory, analysed, call, approvedSum>>

\* the clock moves on
AgentTick(t) ==
  /\ sys \in AgentSystems
  /\ t > now
  /\ now' = t
  /\ UNCHANGED <<sys, extVars, probe, pmVars, agentVars>>

InitStores ==
  /\ attesterWhitelist = {InitialAttester}
  /\ easDb = [u \in AttUids |-> NoAttestation]
  /\ pmResult = NoCall
  /\ admitted = <<>>
  /\ merchantDatabase = <<>>
  /\ call = [p \in Procs |-> IdleCall]
  /\ analysed = <<>>
  /\ probe = NoProbe
  /\ now = T0
  /\ routerOwner = "owner"
  /\ allowedToken = {USDC}
  /\ balances = [t \in Tokens |-> [h \in Holders |->
                   IF h = "payer" THEN PayerFunds
                   ELSE IF h = "pool" /\ t = USDC THEN PoolReserve ELSE 0]]
  /\ routerResult = NoCall
  /\ policy = [k \in PolicyKeys |-> FALSE]
  /\ guardAttester = "attester1"
  /\ guardOwner = "owner"
  /\ guardResult = NoCall
  /\ lastSet = [k \in PolicyKeys |-> FALSE]
  /\ quick = IdleQuick
  /\ receipt_count = 0
  /\ receipts = [id \in 0..MaxReceipts |-> NoStoredReceipt]
  /\ merchant_receipts = [k \in ContractAddresses \X (0..MaxReceipts) |-> 0]
  /\ payer_receipts = [k \in ContractAddresses \X (0..MaxReceipts) |-> 0]
  /\ merchant_receipt_count = [m \in ContractAddresses |-> 0]
  /\ payer_receipt_count = [m \in ContractAddresses |-> 0]
  /\ merchant_total_volume = [m \in ContractAddresses |-> 0]
  /\ receiptResult = NoCall
  /\ emitted = 0

\* the paymaster after its constructor
InitPaymaster ==
  /\ sys = "paymaster"
  /\ InitStores
  /\ config = CHOOSE c \in Configs : c.paymasterAddress # "" /\ c.allowedTokens = {}
  /\ epochSpending = <<>>
  /\ approvedSum = <<>>
  /\ transactionHistory = <<>>

\* the agent after its constructor and six quickCheck calls for the request to "0xbb"
InitAgent ==
  /\ sys = "agent"
  /\ InitStores
  /\ config \in Configs
  /\ epochSpending = <<>>
  /\ approvedSum = <<>>
  /\ transactionHistory = WarmHistory

\* the agent when a batch is submitted: nothing spent yet, or one
\* maxTransactionValue below the cap of the current epoch
InitBatch ==
  /\ sys = "batch"
  /\ InitStores
  /\ config \in {c \in Configs : c.paymasterAddress # ""}
  /\ \E spent \in {0, (CAP_FACTOR - 1) * MaxTxValue} :
       /\ epochSpending = (IF spent = 0 THEN <<>> ELSE [e \in {CurrentEpoch(T0)} |-> spent])
       /\ approvedSum = epochSpending
  /\ transactionHistory = <<>>

NextPaymaster ==
  \/ \E p \in Payloads, h \in UserOpHashes, f \in PreFunds :
       validatePaymasterUserOp(ENTRY_POINT, p, h, f)
  \/ \E c \in Callers \ {ENTRY_POINT}, h \in UserOpHashes, f \in PreFunds,
          p \in {q \in Payloads : q.policyHash = Keccak256(<<"h1", 1>>) /\ q.epoch = 1} :
       validatePaymasterUserOp(c, p, h, f)
  \/ \E c \in Callers : postOp(c)
  \/ \E who \in Attesters, ok \in BOOLEAN : setAttester(who, ok)
  \/ \E uid \in SetUids, s \in Schemas, att \in Attesters, exp \in {0, now + ATTESTATION_TTL} :
       set(uid, s, att, exp, "0")
  \/ \E t \in PaymasterTimes : PaymasterTick(t)

NextCalls ==
  \/ \E p \in Procs, r \in Requests, e \in EpochOptions, skip \in BOOLEAN : Start(p, r, e, skip)
  \/ \E p \in Procs : Validate(p)
  \/ \E p \in Procs : Analyze(p)
  \/ \E p \in Procs : Attest(p)
  \/ \E p \in Procs : Verify(p)
  \/ \E p \in Procs : Record(p)
  \/ \E t \in (IF sys = "expiry" THEN ExpiryTimes ELSE AgentTimes) : AgentTick(t)

NextAgent ==
  \/ NextCalls
  \/ \E p \in Procs : Return(p)
  \/ \E p \in Procs : BuildPaymasterData(p)

NextBatch == NextCalls

\* the sequential agent
SpecAgent == InitAgent /\ [][NextAgent]_vars
\* the Promise.all batch
SpecBatch == InitBatch /\ [][NextBatch]_vars
\* the paymaster
SpecPaymaster == InitPaymaster /\ [][NextPaymaster]_vars

\* a history of n requests, two merchants in turn
LongHistory(n) ==
  [i \in 1..n |-> IF i % 2 = 1 THEN Req("0xaa", "0xusdc", MaxTxValue)
                               ELSE Req("0xbb", "0xcc", MaxTxValue)]

\* the agent after HISTORY_LIMIT - 1 or HISTORY_LIMIT analyses
InitHistory ==
  /\ sys = "history"
  /\ InitStores
  /\ config = CHOOSE c \in Configs : c.paymasterAddress # "" /\ c.allowedTokens = {}
  /\ epochSpending = <<>>
  /\ approvedSum = <<>>
  /\ \E n \in {HISTORY_LIMIT - 1, HISTORY_LIMIT} : transactionHistory = LongHistory(n)

\* the agent with a history at its limit
SpecHistory == InitHistory /\ [][NextAgent]_vars

\* the agent one analysis below the limit of its history when a batch is submitted
InitBatchHistory ==
  /\ sys = "batch"
  /\ InitStores
  /\ config = CHOOSE c \in Configs : c.paymasterAddress # "" /\ c.allowedTokens = {}
  /\ epochSpending = <<>>
  /\ approvedSum = <<>>
  /\ transactionHistory = LongHistory(HISTORY_LIMIT - 1)

\* the Promise.all batch on a history that reaches its limit
SpecBatchHistory == InitBatchHistory /\ [][NextBatch]_vars

\* the agent after its constructor, for quickCheck and processPayment calls
InitQuick ==
  /\ sys = "quick"
  /\ InitStores
  /\ config = CHOOSE c \in Configs : c.paymasterAddress # "" /\ c.allowedTokens = {}
  /\ epochSpending = <<>>
  /\ approvedSum = <<>>
  /\ transactionHistory = <<>>

NextQuick ==
  \/ NextAgent
  \/ \E a \in {MaxTxValue, MaxTxValue + 1} : quickCheck(Req("0xaa", "0xusdc", a))
  \/ quickCheckAnalyze

SpecQuick == InitQuick /\ [][NextQuick]_vars

\* the agent, with a clock that reaches the end of an attestation's window
InitExpiry ==
  /\ sys = "expiry"
  /\ InitStores
  /\ config = CHOOSE c \in Configs : c.paymasterAddress # "" /\ c.allowedTokens = {}
  /\ epochSpending = <<>>
  /\ approvedSum = <<>>
  /\ transactionHistory = <<>>

SpecExpiry == InitExpiry /\ [][NextAgent]_vars

\* a history of nA requests to one merchant followed by nB to another
SampleHistory(nA, a, nB, b) ==
  [i \in 1..(nA + nB) |-> IF i <= nA THEN Req("0xaa", "0xusdc", a) ELSE Req("0xbb", "0xusdc", b)]

SampleHistories ==
  {SampleHistory(n[1], a, n[2], b) :
     n \in {<<0, 0>>, <<1, 0>>, <<2, 0>>, <<4, 5>>, <<5, 5>>, <<5, 6>>, <<6, 4>>, <<6, 10>>, <<0, 10>>},
     a \in {1, 2, 5}, b \in {1, 2, 5}}

\* the inputs of createAttestation: the plan and the three strings
AttestationInputs ==
  [modelId : {"gpt-4o-mini", "other-model"}, prompt : {"Buy coffee", "Buy tea"},
   planDescription : {"Pay Cafe", "Pay Bar"},
   plan : {[NoPlan EXCEPT !.userOpHash = Keccak256(<<u>>), !.policyHash = Keccak256(<<h>>),
                          !.epoch = e] : u \in {"op1", "op2"}, h \in {"op1", "op2"}, e \in {1, 2}}]

\* the factor records calculateRiskScore is applied to; gasUnusual is the
\* literal false of identifyRiskFactors
FactorRecords ==
  [merchantUnknown : BOOLEAN, tokenUnknown : BOOLEAN, amountUnusual : BOOLEAN,
   gasUnusual : {FALSE}, recentFailures : 0..MaxFailures, velocityExceeded : BOOLEAN]

InitPure ==
  /\ sys = "pure"
  /\ InitStores
  /\ config = CHOOSE c \in Configs : c.paymasterAddress # "" /\ c.allowedTokens = {}
  /\ epochSpending = <<>>
  /\ approvedSum = <<>>
  /\ transactionHistory = <<>>

\* paymasterAndData is built off chain and decoded on chain
EncodeDecode(paymasterAddress, uid, policyHash, epoch) ==
  /\ sys = "pure"
  /\ probe = NoProbe
  /\ LET bytes == buildPaymasterAndData(paymasterAddress, uid, policyHash, epoch)
     IN  probe' = [op |-> "buildPaymasterAndData", paymasterAddress |-> paymasterAddress,
                   uid |-> uid, policyHash |-> policyHash, epoch |-> epoch,
                   bytes |-> bytes, decoded |-> _decodeBytes(bytes)]
  /\ UNCHANGED <<sys, extVars, now, pmVars, agentVars>>

\* the policy hash of a userOpHash and an epoch, off chain and on chain
HashPolicy(userOpHash, epoch) ==
  /\ sys = "pure"
  /\ probe = NoProbe
  /\ probe' = [op |-> "policyHash", userOpHash |-> userOpHash, epoch |-> epoch,
               plan |-> planPolicyHash(userOpHash, epoch),
               manager |-> calculatePolicyHash(userOpHash, epoch),
               paymaster |-> _policyHashBytes(userOpHash, epoch)]
  /\ UNCHANGED <<sys, extVars, now, pmVars, agentVars>>

\* the standalone runner prints the policyHash of its arguments
RunRunner(userOpHash, epoch, sha3Available) ==
  /\ sys = "pure"
  /\ probe = NoProbe
  /\ probe' = [op |-> "runner", userOpHash |-> userOpHash, epoch |-> epoch,
               policyHash |-> runnerPolicyHash(userOpHash, epoch, sha3Available)]
  /\ UNCHANGED <<sys, extVars, now, pmVars, agentVars>>

\* the decision of analyze for a risk score
Decide(policyValid, riskScore, flags) ==
  /\ sys = "pure"
  /\ probe = NoProbe
  /\ probe' = [op |-> "decisionLogic", policyValid |-> policyValid, riskScore |-> riskScore,
               flags |-> flags, decision |-> decisionLogic(policyValid, riskScore, 10, flags)]
  /\ UNCHANGED <<sys, extVars, now, pmVars, agentVars>>

\* the risk score of a record of factors
Score(factors, policyValid) ==
  /\ sys = "pure"
  /\ probe = NoProbe
  /\ probe' = [op |-> "calculateRiskScore", factors |-> factors, policyValid |-> policyValid,
               riskScore |-> calculateRiskScore(factors, policyValid)]
  /\ UNCHANGED <<sys, extVars, now, pmVars, agentVars>>

\* createAttestation for two sets of inputs at the same clock
AttestTwice(a, b) ==
  /\ sys = "pure"
  /\ probe = NoProbe
  /\ probe' = [op |-> "createAttestation", first |-> a, second |-> b,
               firstData |-> createAttestation(config, a.plan, a.modelId, a.prompt,
                                               a.planDescription, now).data,
               secondData |-> createAttestation(config, b.plan, b.modelId, b.prompt,
                                                b.planDescription, now).data]
  /\ UNCHANGED <<sys, extVars, now, pmVars, agentVars>>

\* the risk factors and the decision of a request that passed policy
\* validation, for a history and an empty merchant database
AnalyzeRequest(history, request) ==
  /\ sys = "pure"
  /\ probe = NoProbe
  /\ probe' = [op |-> "analyze", history |-> history, request |-> request,
               factors |-> identifyRiskFactors(history, merchantDatabase, request),
               decision |-> analyzeDecision(history, merchantDatabase, request, TRUE)]
  /\ UNCHANGED <<sys, extVars, now, pmVars, agentVars>>

\* PolicyValidator.validate under a configuration with the given allowlists
PolicyValidate(tokens, merchants, request, epoch) ==
  /\ sys = "pure"
  /\ probe = NoProbe
  /\ LET cfg == [config EXCEPT !.allowedTokens = tokens, !.allowedMerchants = merchants]
     IN  probe' = [op |-> "validate", config |-> cfg, request |-> request, epoch |-> epoch,
                   currentEpoch |-> CurrentEpoch(now),
                   validation |-> validate(cfg, epochSpending, request, epoch, now)]
  /\ UNCHANGED <<sys, extVars, now, pmVars, agentVars>>

\* buildPlan for one request and epoch at two wall-clock times
BuildPlanTwice(request, epoch, t1, t2) ==
  /\ sys = "pure"
  /\ probe = NoProbe
  /\ probe' = [op |-> "buildPlan", request |-> request, epoch |-> epoch,
                firstTime |-> t1, secondTime |-> t2,
                first |-> buildPlan(request, epoch, t1),
                second |-> buildPlan(request, epoch, t2)]
  /\ UNCHANGED <<sys, extVars, now, pmVars, agentVars>>

\* values sqrt is applied to: the small ones, and squares and their neighbours
SqrtInputs ==
  (-2..MaxSqrtInput) \cup {999999, 1000000, 1000001, 999999999, 1000000000}

SqrtOf(value) ==
  /\ sys = "pure"
  /\ probe = NoProbe
  /\ probe' = [op |-> "sqrt", value |-> value, result |-> sqrt(value),
                xs |-> IF value < 2 THEN <<>> ELSE sqrtTrace(value, value, (value + 1) \div 2)]
  /\ UNCHANGED <<sys, extVars, now, pmVars, agentVars>>

NextPure ==
  \/ \E a \in AttestationInputs, b \in AttestationInputs : AttestTwice(a, b)
  \/ \E h \in SampleHistories, m \in {"0xaa", "0xAA", "0xbb"}, a \in 0..MaxProbeAmount :
       AnalyzeRequest(h, Req(m, "0xusdc", a))
  \/ \E tokens \in {{}, {"0xusdc"}, {"0xUSDC"}}, merchants \in {{}, {"0xaa"}, {"0xAA"}},
        r \in Requests \cup {Req("0xAA", "0xUSDC", MaxTxValue)}, e \in 0..3 :
       PolicyValidate(tokens, merchants, r, e)
  \/ \E a \in Addresses20, uid \in Bytes32Values, h \in Bytes32Values, e \in CodecEpochs :
       EncodeDecode(a, uid, h, e)
  \/ \E h \in Bytes32Values, e \in CodecEpochs : HashPolicy(h, e)
  \/ \E h \in Bytes32Values, e \in CodecEpochs, sha3 \in BOOLEAN : RunRunner(h, e, sha3)
  \/ \E valid \in BOOLEAN, s \in 0..100, flags \in {{}, {"UNKNOWN_MERCHANT"}} :
       Decide(valid, s, flags)
  \/ \E f \in FactorRecords, valid \in BOOLEAN : Score(f, valid)
  \/ \E r \in BatchRequests, e \in 1..2, t1 \in {T0, T0 + 1, 2 * EPOCH_SECONDS},
        t2 \in {T0, T0 + 1, 2 * EPOCH_SECONDS} : BuildPlanTwice(r, e, t1, t2)
  \/ \E v \in SqrtInputs : SqrtOf(v)

\* the pure functions, each applied to the inputs of the model
SpecPure == InitPure /\ [][NextPure]_vars

\* DollarRouter after its constructor
InitRouter ==
  /\ sys = "router"
  /\ InitStores
  /\ config = CHOOSE c \in Configs : c.paymasterAddress # "" /\ c.allowedTokens = {}
  /\ epochSpending = <<>>
  /\ approvedSum = <<>>
  /\ transactionHistory = <<>>

NextRouter ==
  \/ \E c \in RouterCallers, t \in Tokens, ok \in BOOLEAN : setAllowed(c, t, ok)
  \/ \E t \in Tokens, a \in Amounts, m \in Amounts, out \in Amounts :
       payWithAnyStable("payer", t, a, "merchant", m, out)

SpecRouter == InitRouter /\ [][NextRouter]_vars

\* merchant_receipts after its constructor
InitReceipts ==
  /\ sys = "receipts"
  /\ InitStores
  /\ config = CHOOSE c \in Configs : c.paymasterAddress # "" /\ c.allowedTokens = {}
  /\ epochSpending = <<>>
  /\ approvedSum = <<>>
  /\ transactionHistory = <<>>

NextReceipts ==
  \E payer \in ContractAddresses, merchant \in ContractAddresses, amount_in \in 0..2 :
    emit_receipt(payer, merchant, "usdc", "usdc", amount_in, amount_in, 0, CurrentEpoch(now), 0)

SpecReceipts == InitReceipts /\ [][NextReceipts]_vars

\* policy_guard after its constructor
InitGuard ==
  /\ sys = "guard"
  /\ InitStores
  /\ config = CHOOSE c \in Configs : c.paymasterAddress # "" /\ c.allowedTokens = {}
  /\ epochSpending = <<>>
  /\ approvedSum = <<>>
  /\ transactionHistory = <<>>

NextGuard ==
  \/ \E c \in GuardCallers, u \in GuardUsers, k \in Commitments, allowed \in BOOLEAN :
       set_policy(c, u, k, allowed)
  \/ \E u \in GuardUsers, k \in Commitments : check_policy("owner2", u, k)
  \/ \E c \in GuardCallers, a \in {"attester1", "attester2", GuardZero} : set_attester(c, a)
  \/ \E c \in GuardCallers, o \in {"owner", "owner2"} : transfer_ownership(c, o)

SpecGuard == InitGuard /\ [][NextGuard]_vars

Init == InitPaymaster \/ InitAgent
Next == NextPaymaster \/ NextAgent
Spec == Init /\ [][Next]_vars

(***************************************************************************)
(* The claims about CompliancePaymaster.                                   *)
(***************************************************************************)
\* the latest transaction was a validatePaymasterUserOp call
Validated == pmResult.op = "validate"
\* the attestation the payload of that call names
PayloadAttestation == easDb[pmResult.payload.attUid]
\* the digest of the EntryPoint's userOpHash and the payload's epoch
ExpectedPolicyHash == Keccak256(<<pmResult.userOpHash, pmResult.payload.epoch>>)
\* the checks that precede the policy binding pass
BindingCheckReached ==
  /\ pmResult.caller = ENTRY_POINT
  /\ pmResult.payload.len >= PMD_MIN_LENGTH
  /\ PayloadAttestation.attester # ZeroAddress
  /\ PayloadAttestation.expirationTime = 0 \/ PayloadAttestation.expirationTime >= now
  /\ PayloadAttestation.schema = SCHEMA_UID
  /\ PayloadAttestation.attester \in attesterWhitelist

\* C1 (as amended): validatePaymasterUserOp admits an operation only if the
\* payload's policyHash is keccak256(userOpHash || epoch) for the userOpHash
\* argument of the EntryPoint and the payload's epoch; a payload whose
\* policyHash differs is always rejected, and with POLICY_MISMATCH whenever
\* the caller, length and attestation checks before the binding check pass.
C1_PolicyBinding ==
  Validated =>
    /\ pmResult.outcome = "accepted" => pmResult.payload.policyHash = ExpectedPolicyHash
    /\ (pmResult.payload.policyHash # ExpectedPolicyHash /\ BindingCheckReached)
         => pmResult.outcome = "POLICY_MISMATCH"

\* C1 as stated: every payload whose policyHash differs is rejected with the
\* policy-mismatch error.
C1_MismatchAlwaysPolicyError ==
  Validated =>
    /\ pmResult.outcome = "accepted" => pmResult.payload.policyHash = ExpectedPolicyHash
    /\ pmResult.payload.policyHash # ExpectedPolicyHash => pmResult.outcome = "POLICY_MISMATCH"

\* a payload bound to another epoch is rejected after an operation was admitted
C1_Witness ==
  /\ Validated
  /\ pmResult.outcome = "POLICY_MISMATCH"
  /\ pmResult.payload.policyHash = Keccak256(<<pmResult.userOpHash, 1>>)
  /\ pmResult.payload.epoch = 2
  /\ Len(admitted) > 0

\* C2: no (userOpHash, epoch) pair is admitted twice.
C2_NullifierNeverReused ==
  \A i, j \in 1..Len(admitted) :
    i < j => ~(/\ admitted[i].userOpHash = admitted[j].userOpHash
               /\ admitted[i].epoch = admitted[j].epoch)

\* what the paymaster sponsored in an epoch, each (userOpHash, epoch) pair counted once
Nullifiers(epoch) == {admitted[i].userOpHash : i \in {k \in 1..Len(admitted) : admitted[k].epoch = epoch}}
SponsoredIn(epoch) ==
  LET amountOf(h) == (CHOOSE i \in 1..Len(admitted) :
                        admitted[i].userOpHash = h /\ admitted[i].epoch = epoch)
      RECURSIVE Total(_)
      Total(hs) == IF hs = {} THEN 0
                   ELSE LET h == CHOOSE x \in hs : TRUE
                        IN  admitted[amountOf(h)].amount + Total(hs \ {h})
  IN  Total(Nullifiers(epoch))

\* C3: the operations admitted in an epoch never add up to more than the cap.
C3_SponsoredWithinCap == \A e \in PmEpochs : SponsoredIn(e) <= PaymasterCap

\* C9: an accepted validation names an attestation that exists and is valid in
\* EAS, has the schema SCHEMA_UID, an attester on the whitelist at the time of
\* the call, and an expirationTime of 0 or not before the block time.
C9_AcceptedAttestationHonoured ==
  (Validated /\ pmResult.outcome = "accepted") =>
    /\ PayloadAttestation.uid = pmResult.payload.attUid
    /\ PayloadAttestation.attester # ZeroAddress
    /\ PayloadAttestation.schema = SCHEMA_UID
    /\ PayloadAttestation.attester \in attesterWhitelist
    /\ PayloadAttestation.expirationTime = 0 \/ PayloadAttestation.expirationTime >= now

\* an attestation is accepted in the block of its expirationTime, issued by an
\* attester that was whitelisted after the deployment
C9_Witness ==
  /\ Validated
  /\ pmResult.outcome = "accepted"
  /\ PayloadAttestation.expirationTime = now
  /\ PayloadAttestation.attester # InitialAttester

\* the latest validation is of a payload that is acceptable but for the clock:
\* the attestation expires ATTESTATION_TTL after its issuance
AcceptableButForTime ==
  /\ Validated
  /\ pmResult.caller = ENTRY_POINT
  /\ pmResult.payload.len >= PMD_MIN_LENGTH
  /\ PayloadAttestation.attester \in attesterWhitelist
  /\ PayloadAttestation.schema = SCHEMA_UID
  /\ PayloadAttestation.expirationTime = PayloadAttestation.time + ATTESTATION_TTL
  /\ pmResult.payload.policyHash = ExpectedPolicyHash

\* C10: the payload is accepted at issuance + 3599 and rejected with
\* ExpiredAttestation at issuance + 3601.
C10_ExpiryReportedAsExpired ==
  AcceptableButForTime =>
    /\ now = PayloadAttestation.time + ATTESTATION_TTL - 1 => pmResult.outcome = "accepted"
    /\ now = PayloadAttestation.time + ATTESTATION_TTL + 1 => pmResult.outcome = "ExpiredAttestation"

\* C11: a payload is accepted only with a length of exactly 116 bytes; a
\* payload of any other length, shorter or longer, is rejected as malformed.
C11_ExactLengthOnly ==
  (Validated /\ pmResult.caller = ENTRY_POINT) =>
    /\ pmResult.outcome = "accepted" => pmResult.payload.len = PMD_MIN_LENGTH
    /\ pmResult.payload.len # PMD_MIN_LENGTH => pmResult.outcome = "PMD_TOO_SHORT"

(***************************************************************************)
(* The claims about the encodings.                                         *)
(***************************************************************************)
\* C12: the bytes of buildPaymasterAndData are the 20 bytes of the paymaster
\* address followed by uid, policyHash and the big-endian word of the epoch,
\* 116 bytes in all, and _decode returns (uid, policyHash, epoch) from them.
C12_PayloadRoundTrip ==
  probe.op = "buildPaymasterAndData" =>
    /\ Len(probe.bytes) = 116
    /\ SubSeq(probe.bytes, 1, 20) = probe.paymasterAddress
    /\ SubSeq(probe.bytes, 21, 52) = probe.uid
    /\ SubSeq(probe.bytes, 53, 84) = probe.policyHash
    /\ \A k \in 1..32 : probe.bytes[84 + k] = shr(probe.epoch, 32 - k) % 256
    /\ probe.decoded = [ok |-> TRUE, attUid |-> probe.uid, policyHash |-> probe.policyHash,
                        epoch |-> probe.epoch]

\* a payload with an epoch of three significant bytes and a policyHash other
\* than the uid
C12_Witness ==
  /\ probe.op = "buildPaymasterAndData"
  /\ probe.epoch = 202511
  /\ probe.uid # probe.policyHash
  /\ probe.decoded.ok
  /\ probe.decoded.epoch = 202511

\* C13: buildPlan, calculatePolicyHash and _policyHash hash the same 64
\* bytes, userOpHash followed by the 32-byte big-endian epoch, so the
\* policyHash of a plan is the one the paymaster recomputes.
C13_PolicyHashesAgree ==
  probe.op = "policyHash" =>
    /\ probe.plan = probe.manager
    /\ probe.manager = probe.paymaster
    /\ probe.plan[1] = "keccak256"
    /\ Len(probe.plan[2]) = 64
    /\ SubSeq(probe.plan[2], 1, 32) = probe.userOpHash
    /\ \A k \in 1..32 : probe.plan[2][32 + k] = shr(probe.epoch, 32 - k) % 256

\* the policy hash of an epoch of four significant bytes
C13_Witness ==
  /\ probe.op = "policyHash"
  /\ probe.epoch = 2147483647
  /\ probe.plan[2][61] = 127
  /\ probe.plan[2][64] = 255

\* C14: the policyHash the runner prints is keccak256(userOpHash || epoch),
\* the value the paymaster recomputes.
C14_RunnerHashMatchesValidator ==
  probe.op = "runner" => probe.policyHash = _policyHashBytes(probe.userOpHash, probe.epoch)

C17_RiskScoreIsCappedSum ==
  probe.op = "calculateRiskScore" =>
    LET f == probe.factors
        sum == (IF probe.policyValid THEN 0 ELSE 100)
               + (IF f.merchantUnknown THEN 20 ELSE 0)
               + (IF f.tokenUnknown THEN 15 ELSE 0)
               + (IF f.amountUnusual THEN 25 ELSE 0)
               + (IF f.velocityExceeded THEN 30 ELSE 0)
               + 10 * f.recentFailures
    IN  /\ probe.riskScore = (IF sum < 100 THEN sum ELSE 100)
        /\ probe.riskScore \in 0..100

\* the cap applies: a policy failure with an unknown merchant scores 100
C17_Witness ==
  /\ probe.op = "calculateRiskScore"
  /\ ~probe.policyValid
  /\ probe.factors.merchantUnknown
  /\ probe.factors.recentFailures > 0
  /\ probe.riskScore = 100

(***************************************************************************)
(* The claims about the agent.                                             *)
(***************************************************************************)
\* the cap of an epoch: 10 x maxTransactionValue
EpochCap == 10 * config.maxTransactionValue
\* the call has been through policy validation
PolicyChecked(c) ==
  \/ c.pc \in {"validate", "analyze", "createAttestation", "verifyAttestation"}
  \/ c.pc = "done" /\ c.outcome \in {"returned", "threw: Attestation verification failed"}
\* the call ended without an approved analysis: it was rejected or it threw
Unapproved(c) == c.pc = "done" /\ (c.outcome # "returned" \/ ~c.decision.approved)
\* the spend of an epoch before the call started
SpentBefore(c) == IF c.epoch \in DOMAIN c.spendBefore THEN c.spendBefore[c.epoch] ELSE 0

\* C4: with processPayment calls made one at a time, no epoch's recorded spend
\* exceeds 10 x maxTransactionValue; a request with currentSpending + amountIn
\* above the cap is reported as a policy violation, is not approved and
\* records no spend.
C4_SequentialSpendWithinCap ==
  /\ \A e \in DOMAIN epochSpending : epochSpending[e] <= EpochCap
  /\ \A p \in Procs :
       (PolicyChecked(call[p]) /\ SpentBefore(call[p]) + call[p].request.amountIn > EpochCap)
         => /\ "EpochLimitExceeded" \in call[p].policyValidation.violations
            /\ ~call[p].policyValidation.valid
            /\ ~call[p].decision.approved
            /\ epochSpending = call[p].spendBefore

\* a request within maxTransactionValue is rejected for the cap alone, the
\* epoch being full
C4_Witness ==
  \E p \in Procs :
    /\ call[p].pc = "done"
    /\ call[p].policyValidation.violations = {"EpochLimitExceeded"}
    /\ call[p].epoch \in DOMAIN epochSpending
    /\ epochSpending[call[p].epoch] = EpochCap

\* C5: in a Promise.all batch the calls never record more than the cap in an
\* epoch: no two of them are approved against the same stale spend.
C5_BatchSpendWithinCap ==
  \A e \in DOMAIN epochSpending : epochSpending[e] <= CAP_FACTOR * config.maxTransactionValue

\* C6: getEpochSpending(e) is the sum of amountIn over the calls for epoch e
\* that returned an approved analysis.
C6_SpendIsSumOfApproved ==
  \A e \in DOMAIN epochSpending \cup DOMAIN approvedSum :
    (IF e \in DOMAIN epochSpending THEN epochSpending[e] ELSE 0)
      = (IF e \in DOMAIN approvedSum THEN approvedSum[e] ELSE 0)

\* several approved calls of an epoch are summed, and a call that threw after
\* its approval is not
C6_Witness ==
  \E p \in Procs, e \in DOMAIN approvedSum :
    /\ approvedSum[e] >= 3 * MaxTxValue
    /\ call[p].pc = "done"
    /\ call[p].epoch = e
    /\ call[p].decision.approved
    /\ call[p].outcome = "threw: Attestation verification failed"

\* C7: a processPayment call that returns approved = false or throws, and a
\* validatePaymasterUserOp call that reverts, leave the recorded spend of every
\* epoch and the trusted-attester set as they were before the call.
C7_RejectionHasNoEffect ==
  /\ [][\A p \in Procs :
          (call[p].pc # "done" /\ Unapproved(call'[p]))
             => /\ epochSpending' = call'[p].spendBefore
                /\ attesterWhitelist' = attesterWhitelist]_vars
  /\ [][(pmResult' # pmResult /\ pmResult'.op = "validate" /\ pmResult'.outcome # "accepted")
           => /\ attesterWhitelist' = attesterWhitelist
              /\ admitted' = admitted
              /\ epochSpending' = epochSpending]_vars

\* a call threw after its approval, in an agent that has recorded spend
C7_Witness ==
  \E p \in Procs :
    /\ call[p].pc = "done"
    /\ call[p].outcome = "threw: Attestation verification failed"
    /\ call[p].epoch \in DOMAIN epochSpending
    /\ epochSpending[call[p].epoch] > 0

\* C8: recording spend for an epoch changes the entry of that epoch alone; an
\* epoch nothing was recorded for reports spend 0 and a capRemaining of the
\* full cap, no reset being called.
C8_EpochsAreIndependent ==
  /\ [][\A e \in DOMAIN epochSpending \cup DOMAIN epochSpending' :
          getEpochSpending(epochSpending', e) # getEpochSpending(epochSpending, e)
            => \E p \in Procs : /\ call[p].pc = "verifyAttestation"
                                /\ call'[p].pc = "done"
                                /\ call[p].epoch = e]_vars
  /\ [](\A p \in Procs :
          (PolicyChecked(call[p]) /\ call[p].epoch \notin DOMAIN call[p].spendBefore)
            => call[p].policyValidation.capRemaining = EpochCap)
  /\ [](\A e \in 0..4 : e \notin DOMAIN approvedSum => getEpochSpending(epochSpending, e) = 0)

\* a request for the next epoch finds the full cap while the current epoch
\* has recorded spend
C8_Witness ==
  \E p \in Procs :
    /\ call[p].pc = "validate"
    /\ call[p].epoch = 2
    /\ 2 \notin DOMAIN epochSpending
    /\ 1 \in DOMAIN epochSpending
    /\ epochSpending[1] > 0
    /\ call[p].policyValidation.capRemaining = EpochCap

\* the call has its decision
Decided(c) ==
  \/ c.pc \in {"analyze", "createAttestation", "verifyAttestation"}
  \/ c.pc = "done" /\ c.outcome \in {"returned", "threw: Attestation verification failed"}

\* C16: a request whose policy validation reports a violation is decided
\* approved = false, with the risk analysis run or skipped, and no
\* attestation is created for it.
C16_ViolationAlwaysRejects ==
  \A p \in Procs :
    (Decided(call[p]) /\ call[p].policyValidation.violations # {})
      => /\ ~call[p].decision.approved
         /\ call[p].attestation = NoAgentAttestation
         /\ call[p].pc \notin {"createAttestation", "verifyAttestation"}

\* a request outside the allowlists is rejected with the risk analysis skipped
C16_Witness ==
  \E p \in Procs :
    /\ call[p].pc = "done"
    /\ call[p].outcome = "returned"
    /\ call[p].skipRiskAnalysis
    /\ "MerchantNotInAllowlist" \in call[p].policyValidation.violations
    /\ ~call[p].decision.approved

\* the last n elements of a sequence
LastN(h, n) == IF Len(h) > n THEN SubSeq(h, Len(h) - n + 1, Len(h)) ELSE h

\* C18: the history never holds more than 1000 requests; an analyze call
\* appends its request and keeps the most recent 1000 in arrival order, and
\* does not change the recorded spend; nothing else changes the history.
C18_HistoryIsRollingWindow ==
  /\ [](Len(transactionHistory) <= 1000)
  /\ [][analysed' # analysed =>
          /\ transactionHistory' =
               LastN(Append(transactionHistory, analysed'[Len(analysed')]), 1000)
          /\ epochSpending' = epochSpending]_vars
  /\ [][transactionHistory' # transactionHistory => analysed' # analysed]_vars

\* the oldest request was dropped: the history is full and starts with the
\* second request of the initial one
C18_Witness ==
  /\ Len(analysed) > 0
  /\ Len(transactionHistory) = HISTORY_LIMIT
  /\ transactionHistory[1] = LongHistory(2)[2]
  /\ transactionHistory[HISTORY_LIMIT] = analysed[Len(analysed)]

\* C19: a request with a malformed merchant or token address or with amount
\* zero is never reported as an AgentDecision with approved = false and the
\* policy-failure reason, the outcome of an allowlist or cap violation.
C19_InvalidInputFailsFast ==
  \A p \in Procs :
    (/\ call[p].pc = "done"
     /\ \/ ~isValidAddress(call[p].request.merchant)
        \/ ~isValidAddress(call[p].request.tokenIn)
        \/ call[p].request.amountIn = 0)
      => ~(/\ call[p].outcome = "returned"
           /\ ~call[p].decision.approved
           /\ call[p].decision.reason = "Policy validation failed")

\* C20: an analysis processPayment returns carries an attestation iff its
\* decision is approved, and buildPaymasterData throws 'No attestation
\* available' for an analysis without an attestation instead of building a
\* payload.
C20_AttestationIffApproved ==
  \A p \in Procs :
    (call[p].pc = "done" /\ call[p].outcome = "returned")
      => /\ call[p].attestation # NoAgentAttestation <=> call[p].decision.approved
         /\ call[p].paymasterData.status # "none"
              => /\ call[p].paymasterData.status = "built" <=> call[p].decision.approved
                 /\ ~call[p].decision.approved
                      => call[p].paymasterData.error = "No attestation available"

\* buildPaymasterData threw for a rejected analysis
C20_Witness ==
  \E p \in Procs :
    /\ call[p].pc = "done"
    /\ call[p].outcome = "returned"
    /\ ~call[p].decision.approved
    /\ call[p].paymasterData.status = "threw"

(***************************************************************************)
(* The claims about DollarRouter and policy_guard.                         *)
(***************************************************************************)
\* C22: payWithAnyStable with a token whose allowedToken flag is false
\* reverts and moves no token; a successful call has an allow-listed token
\* and adds to the merchant's USDC an amountOut >= minOut; allowedToken
\* changes only in a setAllowed call of the owner.
C22_RouterPaysAllowedWithinSlippage ==
  /\ [](routerResult.op = "payWithAnyStable" =>
          /\ routerResult.tokenIn \notin allowedToken =>
                /\ routerResult.outcome = "TOKEN_NOT_ALLOWED"
                /\ balances = routerResult.before
          /\ routerResult.outcome = "ok" =>
                /\ routerResult.tokenIn \in allowedToken
                /\ routerResult.amountOut >= routerResult.minOut
                /\ balances[USDC][routerResult.merchant]
                     = routerResult.before[USDC][routerResult.merchant] + routerResult.amountOut)
  /\ [][allowedToken' # allowedToken =>
          /\ routerResult'.op = "setAllowed"
          /\ routerResult'.caller = routerOwner
          /\ routerOwner = "owner"]_vars

\* a swap of a token the owner allow-listed pays the merchant more than minOut
C22_Witness ==
  /\ routerResult.op = "payWithAnyStable"
  /\ routerResult.outcome = "ok"
  /\ routerResult.tokenIn # USDC
  /\ routerResult.amountOut > routerResult.minOut
  /\ balances[USDC]["merchant"] >= 2

C21_AttestationDataBindsInputs ==
  probe.op = "createAttestation" =>
    (probe.first # probe.second => probe.firstData # probe.secondData)

\* the same plan attested for two prompts
C21_Witness ==
  /\ probe.op = "createAttestation"
  /\ probe.first.plan = probe.second.plan
  /\ probe.first.modelId = probe.second.modelId
  /\ probe.first.prompt # probe.second.prompt
  /\ probe.firstData # probe.secondData

\* the checks of the validator, in the claimed order, as failed or passed by
\* the payload of the latest call
FailedChecks ==
  LET a == PayloadAttestation
  IN  << pmResult.payload.len < PMD_MIN_LENGTH,
         ~(a.attester # ZeroAddress /\ (a.expirationTime = 0 \/ a.expirationTime >= now)),
         a.schema # SCHEMA_UID,
         a.attester \notin attesterWhitelist,
         a.expirationTime # 0 /\ a.expirationTime < now,
         pmResult.payload.policyHash # ExpectedPolicyHash >>
CheckReasons ==
  << "PMD_TOO_SHORT", "InvalidAttestation", "InvalidAttestation", "AttesterNotWhitelisted",
     "ExpiredAttestation", "POLICY_MISMATCH" >>

\* C24: a call of the EntryPoint is rejected with the reason of the first
\* failing check in the order length, validity in EAS, schema, attester
\* whitelist, expiration, policy binding, whatever the later checks would
\* find; it is accepted when no check fails.
C24_FirstFailingCheckDecides ==
  (Validated /\ pmResult.caller = ENTRY_POINT) =>
    LET failing == {i \in 1..6 : FailedChecks[i]}
    IN  IF failing = {} THEN pmResult.outcome = "accepted"
        ELSE pmResult.outcome = CheckReasons[CHOOSE i \in failing : \A j \in failing : i <= j]

\* a payload fails the schema, whitelist and binding checks at once
C24_Witness ==
  /\ Validated
  /\ pmResult.caller = ENTRY_POINT
  /\ {i \in 1..6 : FailedChecks[i]} = {3, 4, 6}
  /\ pmResult.outcome = "InvalidAttestation"

\* C25: HIGH_VELOCITY is raised iff more than 5 of the last 10 recorded
\* requests went to the merchant of the request, compared without regard to
\* case; older requests do not count.
C25_VelocityLooksAtLastTen ==
  probe.op = "analyze" =>
    LET h == probe.history
        window == {i \in 1..Len(h) : i > Len(h) - 10}
        same == {i \in window : toLowerCase(h[i].merchant) = toLowerCase(probe.request.merchant)}
    IN  /\ probe.factors.velocityExceeded <=> Cardinality(same) > 5
        /\ "HIGH_VELOCITY" \in probe.decision.flags <=> Cardinality(same) > 5

\* C26: validate takes an epoch as valid only if it is the current epoch or
\* the next; for any other epoch epochValid is false and an invalid-epoch
\* violation is reported.
C26_OnlyCurrentAndNextEpoch ==
  probe.op = "validate" =>
    /\ probe.validation.epochValid
         <=> probe.epoch \in {probe.currentEpoch, probe.currentEpoch + 1}
    /\ "InvalidEpoch" \in probe.validation.violations <=> ~probe.validation.epochValid

\* C27: with a non-empty allowlist the not-in-allowlist violation is reported
\* iff the address of the request, compared without regard to case, is
\* absent from the configured list.
C27_AllowlistIgnoresCase ==
  probe.op = "validate" =>
    LET lower(list) == {toLowerCase(x) : x \in list}
        cfg == probe.config
    IN  /\ "TokenNotInAllowlist" \in probe.validation.violations
             <=> /\ cfg.allowedTokens # {}
                 /\ toLowerCase(probe.request.tokenIn) \notin lower(cfg.allowedTokens)
        /\ "MerchantNotInAllowlist" \in probe.validation.violations
             <=> /\ cfg.allowedMerchants # {}
                 /\ toLowerCase(probe.request.merchant) \notin lower(cfg.allowedMerchants)

\* C28: with fewer than 10 requests in the history no amount is flagged; from
\* 10 on an amount is flagged iff it is more than two standard deviations
\* above or below the mean, mean and deviation taken in integers (rounded down).
C28_OutlierNeedsTenSamples ==
  probe.op = "analyze" =>
    LET h == probe.history
        n == Len(h)
        amount == probe.request.amountIn
        total[i \in 0..n] == IF i = 0 THEN 0 ELSE total[i - 1] + h[i].amountIn
        mean == total[n] \div n
        squares[i \in 0..n] ==
          IF i = 0 THEN 0 ELSE squares[i - 1] + (h[i].amountIn - mean) * (h[i].amountIn - mean)
        variance == squares[n] \div n
        deviation == CHOOSE r \in 0..variance : r * r <= variance /\ (r + 1) * (r + 1) > variance
        flagged == probe.factors.amountUnusual
    IN  /\ "UNUSUAL_AMOUNT" \in probe.decision.flags <=> flagged
        /\ n < 10 => ~flagged
        /\ n >= 10 => (flagged <=> \/ amount > mean + 2 * deviation
                                   \/ amount < mean - 2 * deviation)

\* amounts are flagged on both sides of a mean with a deviation above zero
C28_Witness ==
  /\ probe.op = "analyze"
  /\ Len(probe.history) = 10
  /\ probe.history[1].amountIn # probe.history[10].amountIn
  /\ probe.factors.amountUnusual
  /\ probe.request.amountIn = 0
  /\ "UNUSUAL_AMOUNT" \in probe.decision.flags

\* C29: after k requests to a merchant that failed policy validation (their
\* amount is above maxTransactionValue), the next request to that merchant
\* counts k recent failures: its score is 10 k higher, up to 100, and it
\* carries RECENT_FAILURES when k > 0.
C29_FailuresRaiseScore ==
  (probe.op = "analyze" /\ Len(probe.history) <= MaxFailures) =>
    LET h == probe.history
        f == probe.factors
        k == Cardinality({i \in 1..Len(h) :
                            /\ toLowerCase(h[i].merchant) = toLowerCase(probe.request.merchant)
                            /\ h[i].amountIn > config.maxTransactionValue})
        base == (IF f.merchantUnknown THEN 20 ELSE 0) + (IF f.tokenUnknown THEN 15 ELSE 0)
                + (IF f.amountUnusual THEN 25 ELSE 0) + (IF f.velocityExceeded THEN 30 ELSE 0)
    IN  /\ probe.decision.riskScore = (IF base + 10 * k < 100 THEN base + 10 * k ELSE 100)
        /\ k > 0 => "RECENT_FAILURES" \in probe.decision.flags

\* C30 (as amended): a created attestation has expirationTime = time + 3600
\* and the schema of the configuration; verifyAttestation is true for it at
\* every clock value <= expirationTime and false after; an approved request
\* whose attestation verifies returns and records its spend, and
\* processPayment throws 'Attestation verification failed' only when the
\* clock has passed expirationTime before the verification.
C30_FreshAttestationVerifiesInWindow ==
  /\ [](\A p \in Procs : call[p].attestation # NoAgentAttestation =>
          /\ call[p].attestation.expirationTime = call[p].attestation.time + 3600
          /\ call[p].attestation.schema = config.schemaUID)
  /\ [][\A p \in Procs :
          (call[p].pc = "createAttestation" /\ call'[p].pc = "verifyAttestation")
            => (call'[p].attestationValid <=> now <= call[p].attestation.expirationTime)]_vars
  /\ [][\A p \in Procs :
          (call[p].pc = "verifyAttestation" /\ call'[p].pc = "done")
            => IF call[p].attestationValid
                 THEN /\ call'[p].outcome = "returned"
                      /\ getEpochSpending(epochSpending', call[p].epoch)
                           = getEpochSpending(epochSpending, call[p].epoch)
                             + call[p].request.amountIn
                 ELSE /\ call'[p].outcome = "threw: Attestation verification failed"
                      /\ epochSpending' = epochSpending]_vars

\* C30 as stated: processPayment never throws 'Attestation verification
\* failed' for an approved request, and the approved spend is always recorded.
C30_ApprovedAlwaysRecorded ==
  \A p \in Procs :
    (call[p].pc = "done" /\ call[p].decision.approved)
      => /\ call[p].outcome = "returned"
         /\ getEpochSpending(epochSpending, call[p].epoch) >= call[p].request.amountIn

\* an attestation created at T0 failed its verification one second after the
\* end of its window, in an agent that has recorded an approved spend
C30_Witness ==
  \E p \in Procs :
    /\ call[p].pc = "done"
    /\ call[p].outcome = "threw: Attestation verification failed"
    /\ call[p].attestation.time = T0
    /\ now = call[p].attestation.expirationTime + 1
    /\ getEpochSpending(epochSpending, call[p].epoch) > 0

(***************************************************************************)
(* The claims about concurrent analyses, the EntryPoint guard, the         *)
(* whitelist, the plan builder, quickCheck, the receipts and sqrt.         *)
(***************************************************************************)
\* the calls of the batch whose analyze has run
AnalysedCalls ==
  {p \in Procs :
     \/ call[p].pc \in {"analyze", "createAttestation", "verifyAttestation"}
     \/ /\ call[p].pc = "done"
        /\ call[p].outcome \notin {"threw: Configuration invalid", "threw: Transaction plan invalid"}}

\* C31: with several analyze calls in flight, every analysed request is in
\* the history exactly once: the history is the most recent 1000 of the
\* earlier history followed by the analysed requests in some order, so it
\* holds min(n, 1000) entries and none is missing or duplicated.
C31_NoLostHistoryUpdate ==
  LET k == Cardinality(AnalysedCalls)
      orders == {f \in [1..k -> AnalysedCalls] : \A i, j \in 1..k : f[i] = f[j] => i = j}
      total == HISTORY_LIMIT - 1 + k
  IN  /\ Len(transactionHistory) = (IF total < 1000 THEN total ELSE 1000)
      /\ \E f \in orders :
           transactionHistory =
             LastN(LongHistory(HISTORY_LIMIT - 1) \o [i \in 1..k |-> call[f[i]].request], 1000)

\* two calls of the batch are both waiting for their analyze to resolve; the
\* call started second was analysed first and the oldest entry was dropped
C31_Witness ==
  /\ \A p \in Procs : call[p].pc = "analyze"
  /\ call[1].request # call[2].request
  /\ Len(transactionHistory) = HISTORY_LIMIT
  /\ transactionHistory[HISTORY_LIMIT] = call[1].request
  /\ transactionHistory[HISTORY_LIMIT - 1] = call[2].request
  /\ transactionHistory[1] = LongHistory(2)[2]

\* C32: validatePaymasterUserOp and postOp revert with NotEntryPoint for every
\* caller other than ENTRY_POINT, whatever the payload and the attestation
\* store hold, and such a call changes nothing.
C32_OnlyEntryPointDrives ==
  /\ []((pmResult.op \in {"validate", "postOp"} /\ pmResult.caller # ENTRY_POINT)
          => pmResult.outcome = "NotEntryPoint")
  /\ [][(pmResult'.op \in {"validate", "postOp"} /\ pmResult'.caller # ENTRY_POINT)
          => /\ admitted' = admitted
             /\ attesterWhitelist' = attesterWhitelist
             /\ easDb' = easDb]_vars

\* a payload that is too short to decode, sent by another caller
C32_Witness ==
  /\ pmResult.op = "validate"
  /\ pmResult.caller # ENTRY_POINT
  /\ pmResult.payload.len < PMD_MIN_LENGTH
  /\ pmResult.outcome = "NotEntryPoint"

\* C33 (as amended): a step that changes the whitelist changes the entry of
\* one attester and nothing else of the paymaster; while an attester is not
\* whitelisted no validation whose attestation it issued is accepted, and the
\* validation is rejected with AttesterNotWhitelisted when the caller, the
\* payload length, the attestation's validity and its schema pass.
C33_AttesterUpdateLocalAndImmediate ==
  /\ [][attesterWhitelist' # attesterWhitelist
          => /\ Cardinality((attesterWhitelist' \ attesterWhitelist)
                             \cup (attesterWhitelist \ attesterWhitelist')) = 1
             /\ easDb' = easDb
             /\ admitted' = admitted]_vars
  /\ []((/\ Validated
          /\ PayloadAttestation.attester \in Attesters \ attesterWhitelist)
         => /\ pmResult.outcome # "accepted"
            /\ (/\ pmResult.caller = ENTRY_POINT
                /\ pmResult.payload.len >= PMD_MIN_LENGTH
                /\ PayloadAttestation.expirationTime = 0 \/ PayloadAttestation.expirationTime >= now
                /\ PayloadAttestation.schema = SCHEMA_UID)
               => pmResult.outcome = "AttesterNotWhitelisted")

\* C33 as stated: every validation whose attestation was issued by an attester
\* that is not whitelisted is rejected with AttesterNotWhitelisted.
C33_RemovedAttesterAlwaysNamed ==
  (/\ Validated
   /\ pmResult.caller = ENTRY_POINT
   /\ pmResult.payload.len >= PMD_MIN_LENGTH
   /\ PayloadAttestation.attester \in Attesters \ attesterWhitelist)
    => pmResult.outcome = "AttesterNotWhitelisted"

\* the attester of the constructor was removed, and an attestation of it that
\* is valid, of the right schema and bound to the operation is turned down
C33_Witness ==
  /\ Validated
  /\ pmResult.caller = ENTRY_POINT
  /\ PayloadAttestation.attester = InitialAttester
  /\ InitialAttester \notin attesterWhitelist
  /\ PayloadAttestation.schema = SCHEMA_UID
  /\ pmResult.payload.policyHash = ExpectedPolicyHash
  /\ pmResult.outcome = "AttesterNotWhitelisted"

\* C34: two buildPlan calls with the same request and the same epoch return
\* the same userOpHash and the same policyHash, whatever the time of each call.
C34_BuildPlanIgnoresClock ==
  probe.op = "buildPlan" =>
    /\ probe.first.userOpHash = probe.second.userOpHash
    /\ probe.first.policyHash = probe.second.policyHash

\* C37: sqrt terminates, x decreasing strictly at every iteration and never
\* below 1, and returns 0 for a negative value and otherwise the r with
\* r * r <= value < (r + 1) * (r + 1).
C37_SqrtIsFloorRoot ==
  probe.op = "sqrt" =>
    LET v == probe.value
        r == probe.result
        xs == probe.xs
    IN  /\ v < 0 => r = 0
        /\ v >= 0 => r >= 0 /\ r * r <= v /\ v < (r + 1) * (r + 1)
        /\ \A i \in 1..Len(xs) : xs[i] >= 1
        /\ \A i \in 1..(Len(xs) - 1) : xs[i + 1] < xs[i]
        /\ v >= 2 => xs[1] = v /\ xs[Len(xs)] = r

\* the loop ran more than twice on a value that is not a square
C37_Witness ==
  /\ probe.op = "sqrt"
  /\ Len(probe.xs) > 3
  /\ probe.result * probe.result < probe.value
  /\ probe.value < (probe.result + 1) * (probe.result + 1)

\* C35: a quickCheck call never changes the recorded spend of an epoch and
\* creates no attestation, whatever decision it returns.
C35_QuickCheckIsSpendNeutral ==
  [][quick' # quick => /\ epochSpending' = epochSpending
                       /\ approvedSum' = approvedSum
                       /\ call' = call]_vars

\* quickCheck approved a request of a positive amount; nothing is recorded
\* as spent and no attestation exists
C35_Witness ==
  /\ quick.pc = "done"
  /\ quick.result
  /\ quick.request.amountIn > 0
  /\ quick.policyValidation.valid
  /\ getEpochSpending(epochSpending, quick.epoch) = 0
  /\ \A p \in Procs : call[p].attestation = NoAgentAttestation

\* the sum of f over the set S
RECURSIVE SumOver(_, _)
SumOver(f, S) == IF S = {} THEN 0 ELSE LET x == CHOOSE y \in S : TRUE IN f[x] + SumOver(f, S \ {x})

\* the receipts stored for a merchant and for a payer, as the getters return them
MerchantReceipts(m) ==
  [i \in 0..(merchant_receipt_count[m] - 1) |-> get_merchant_receipt_at_index(m, i)]
PayerReceipts(p) ==
  [i \in 0..(payer_receipt_count[p] - 1) |-> get_payer_receipt_at_index(p, i)]

\* C36: receipt_count is the number of successful emit_receipt calls, the sum
\* of merchant_receipt_count and the sum of payer_receipt_count; the receipts
\* indexed for a merchant (payer) are distinct receipts of that merchant
\* (payer) and merchant_total_volume is the sum of their amount_in; a call
\* with a zero payer, zero merchant or zero amount_in is rejected, and a
\* rejected call changes none of these.
C36_ReceiptCountersConsistent ==
  /\ [](/\ receipt_count = emitted
         /\ receipt_count = SumOver(merchant_receipt_count, ContractAddresses)
         /\ receipt_count = SumOver(payer_receipt_count, ContractAddresses)
         /\ \A m \in ContractAddresses :
              LET stored == MerchantReceipts(m) IN
                /\ \A i \in DOMAIN stored : stored[i].merchant = m
                /\ \A i, j \in DOMAIN stored :
                     merchant_receipts[<<m, i>>] = merchant_receipts[<<m, j>>] => i = j
                /\ \A i \in DOMAIN stored : merchant_receipts[<<m, i>>] < receipt_count
                /\ merchant_total_volume[m]
                     = SumOver([i \in DOMAIN stored |-> stored[i].amount_in], DOMAIN stored)
         /\ \A p \in ContractAddresses :
              LET paid == PayerReceipts(p) IN
                /\ \A i \in DOMAIN paid : paid[i].payer = p
                /\ \A i, j \in DOMAIN paid :
                     payer_receipts[<<p, i>>] = payer_receipts[<<p, j>>] => i = j
         /\ (/\ receiptResult.op = "emit_receipt"
             /\ \/ receiptResult.payer = "0"
                \/ receiptResult.merchant = "0"
                \/ receiptResult.amount_in = 0)
            => receiptResult.outcome \in {"Invalid address", "Amount must be > 0"})
  /\ [][(receiptResult'.op = "emit_receipt" /\ receiptResult'.outcome # "ok")
          => /\ receiptStorage' = receiptStorage
             /\ emitted' = emitted]_vars

\* a merchant holds two receipts of two payers, 3 in total, and the latest
\* call, with amount_in zero, was rejected
C36_Witness ==
  /\ merchant_receipt_count["a1"] = 2
  /\ merchant_total_volume["a1"] = 3
  /\ get_merchant_receipt_at_index("a1", 0).payer # get_merchant_receipt_at_index("a1", 1).payer
  /\ receipt_count = 2
  /\ receiptResult.op = "emit_receipt"
  /\ receiptResult.amount_in = 0
  /\ receiptResult.outcome = "Amount must be > 0"
====
